---- MODULE Spec2Model ----
(***************************************************************************)
(* Money Transfer Engine of the finance app: the balance and pot handlers  *)
(* of backend/server.js in its three variants                              *)
(*   "auth"   MySQL + Auth   (server.js lines 1-922)                       *)
(*   "mysql"  MySQL          (server.js lines 924-1662)                    *)
(*   "mem"    in-memory      (server.js lines 1664-2139)                   *)
(* Every `await db.*(...)` of a handler is one store step (one SQL         *)
(* statement, auto-committed); the handlers of the in-memory variant are   *)
(* synchronous and run as one step.  Money is counted in whole units.      *)
(***************************************************************************)
EXTENDS Integers, Sequences, FiniteSets, TLC

\* ---------------------------------------------------------------- bounds
MaxReqs == 2        \* requests issued in one behaviour
MaxPotId == 2       \* pot ids the store hands out
MaxAmount == 2      \* largest amount or total a request carries
MaxBudgetId == 3    \* budget ids the store hands out
MaxClock == 2       \* the time advances from 0 to this
MaxUserId == 4      \* user ids the store hands out
MaxItems == 5       \* the transactions of a paginated ledger
MaxRows == 3        \* the transactions of a sorted ledger
StartBalance == 2   \* balance.current of every user at the start
StartTotal == 1     \* total of the pot that exists at the start

Variants == {"auth", "mysql", "mem"}
Slots == {1, 2}                          \* requests in flight at once
Users == {1, 2}                          \* user ids (auth variant)
Amounts == 0..MaxAmount                  \* amount of add / withdraw (0 is invalid)
TransferOps == {"add", "withdraw", "delete"}
PotOps == TransferOps \cup {"create", "update"}
AllOps == PotOps \cup {"data"}

VARIABLES
    variant,    \* which server is running
    balance,    \* balance.current by user_id (row id = 1 without users)
    pots,       \* the pots table / financeData.pots, in insertion order
    nextId,     \* AUTO_INCREMENT of pots.id (identity of a pot object in "mem")
    disk,       \* "mem": content of data/data.json
    refunded,   \* ids of the pots whose total a deletePot has credited
    req,        \* the requests in flight, by slot
    nreq,       \* requests issued so far
    page,       \* frontend: PotsPage.state.pots, the pots the page has loaded
    budgets,    \* the budgets table / financeData.budgets, in insertion order
    nextBudget, \* AUTO_INCREMENT of budgets.id
    transactions, \* the transactions table / financeData.transactions
    mw,         \* auth.js: the requests authenticateToken handles, by slot
    clock,      \* the time, which jwt.verify compares with a token's expiry
    userRows,   \* the users table, in insertion order
    balanceRows, \* the balance table: the user_id of each row
    nextUser,   \* AUTO_INCREMENT of users.id
    signup,     \* the signups in flight, by slot
    answer,     \* GET /api/budgets or /api/recurring-bills being answered
    view        \* what the budgets page or the overview page has computed

budgetVars == <<budgets, nextBudget>>
authVars == <<mw, clock>>
signupVars == <<userRows, balanceRows, nextUser, signup>>

\* what the handlers of server.js leave alone
reportVars == <<answer, view>>
otherVars == <<authVars, signupVars, reportVars>>

\* what the handlers and the page of the pots leave alone
restVars == <<budgetVars, transactions, otherVars>>

\* what the handlers of the pots leave alone
extVars == <<page, restVars>>

vars == <<variant, balance, pots, nextId, disk, refunded, req, nreq, extVars>>

\* ---------------------------------------------------------------- helpers
\* An optional field of a JSON body: None is undefined, Some(v) carries v.
None == << >>
Some(v) == <<v>>
Val(o) == o[1]

\* A string is the sequence of its characters.
DigitChars == <<"0", "1", "2", "3", "4", "5", "6", "7", "8", "9">>
IsDigit(c) == \E i \in DOMAIN DigitChars : DigitChars[i] = c
DigitVal(c) == (CHOOSE i \in DOMAIN DigitChars : DigitChars[i] = c) - 1

\* String(n) of an integer n
RECURSIVE ToDigits(_)
ToDigits(n) == IF n < 10 THEN <<DigitChars[n + 1]>>
               ELSE Append(ToDigits(n \div 10), DigitChars[(n % 10) + 1])
NumberToString(n) == IF n < 0 THEN <<"-">> \o ToDigits(0 - n) ELSE ToDigits(n)

\* parseFloat(x): x is converted to a string, leading white space is skipped,
\* and the longest prefix that is a decimal literal (a sign, then digits) is
\* converted; NaN (None) when there is no such prefix.  What follows the
\* prefix is ignored.
RECURSIVE TrimStart(_)
TrimStart(s) == IF s # << >> /\ Head(s) = " " THEN TrimStart(Tail(s)) ELSE s
RECURSIVE LeadingDigits(_)
LeadingDigits(s) == IF s = << >> \/ ~IsDigit(Head(s)) THEN << >>
                    ELSE <<Head(s)>> \o LeadingDigits(Tail(s))
RECURSIVE DigitsValue(_)
DigitsValue(d) == IF d = << >> THEN 0
                  ELSE 10 * DigitsValue(SubSeq(d, 1, Len(d) - 1)) + DigitVal(d[Len(d)])
ParseFloat(x) ==
    LET t == TrimStart(x)
        neg == t # << >> /\ Head(t) = "-"
        d == LeadingDigits(IF t # << >> /\ Head(t) \in {"-", "+"} THEN Tail(t) ELSE t)
    IN IF d = << >> THEN None
       ELSE Some(IF neg THEN 0 - DigitsValue(d) ELSE DigitsValue(d))
IsNaN(p) == p = None

NoBody == [name |-> None, target |-> None, total |-> None, theme |-> None]

\* op, user, id, amount, body: the request (req.user.id, req.params.id,
\* req.body.amount, req.body); arg: the handler's addAmount / withdrawAmount
\* (0 when it is NaN, which no handler reads past its validation); edit: the
\* request is the edit of a pot by the pots page; pc: the await the handler
\* stands at; loc, found:
\* its local `pot` / `balance`; status, ret, retBal: the response.
\* dBal, dPot: what the handler's own UPDATEs have added to balance.current
\* and to the pot's total; gone: the total of the row its DELETE removed.
\* obj: the pot the handler removed; saved: what its saveData() returned.
\* seenBal, seenHad: the balance a reader read and the pots that existed then;
\* seenRef: the refunds that balance included; seenPots: the pots it read.
\* denoted: the pot or budget that the request's id denoted in the list the
\* client took the id from (0 when the id was not taken from a list).
Idle ==
    [op |-> "none", user |-> 1, id |-> 0, amount |-> << >>, arg |-> 0,
     body |-> NoBody, edit |-> FALSE,
     pc |-> "idle", loc |-> 0, found |-> FALSE,
     status |-> "none", ret |-> 0, retBal |-> 0,
     dBal |-> 0, dPot |-> 0, gone |-> None, obj |-> 0, saved |-> TRUE,
     seenBal |-> 0, seenRef |-> {}, seenHad |-> {}, seenPots |-> {}, denoted |-> 0]

\* WHERE id = ? AND user_id = ?  (the MySQL variant has no user_id column)
Match(p, id, u) == p.id = id /\ (variant = "auth" => p.user_id = u)

\* the rows a WHERE clause selects, as indices of the table
Rows(id, u) == {i \in DOMAIN pots : Match(pots[i], id, u)}

\* db.queryOne('SELECT ... FROM pots WHERE id = ? AND user_id = ?')
HasPot(id, u) == Rows(id, u) # {}
PotTotal(id, u) == pots[CHOOSE i \in Rows(id, u) : TRUE].total

\* UPDATE pots SET total = total + d WHERE id = ? AND user_id = ?
AddTotal(id, u, d) ==
    [i \in DOMAIN pots |->
        IF Match(pots[i], id, u) THEN [pots[i] EXCEPT !.total = @ + d] ELSE pots[i]]

\* the fields of a pot that the body of a PUT /api/pots/:id provides
UpdateRow(p, b) ==
    [p EXCEPT !.name = IF b.name # None THEN Val(b.name) ELSE @,
              !.target = IF b.target # None THEN Val(b.target) ELSE @,
              !.total = IF b.total # None THEN Val(b.total) ELSE @]

\* UPDATE pots SET name = ?, target = ?, total = ?, theme = ? WHERE id = ? AND
\* user_id = ?, with the assignments of the fields the body provides
UpdateFields(id, u, b) ==
    [i \in DOMAIN pots |->
        IF Match(pots[i], id, u) THEN UpdateRow(pots[i], b) ELSE pots[i]]

\* DELETE FROM pots WHERE id = ? AND user_id = ?
DeleteRows(id, u) == SelectSeq(pots, LAMBDA p : ~Match(p, id, u))

\* SELECT id ... FROM pots WHERE user_id = ?
PotIdsOf(u) == {pots[i].id : i \in {j \in DOMAIN pots : variant = "auth" => pots[j].user_id = u}}

\* the response of a handler: res.status(...).json(...)
Respond(r, st, ret, retBal) ==
    [req[r] EXCEPT !.pc = "done", !.status = st, !.ret = ret, !.retBal = retBal]

At(r, op, pc) == req[r].op = op /\ req[r].pc = pc

Sql == variant \in {"auth", "mysql"}

\* ---------------------------------------------------------------- state
\* the pot that exists at the start
FirstPot ==
    [id |-> 1, user_id |-> 1, name |-> "Savings", target |-> MaxAmount,
     total |-> StartTotal]

\* the budget that exists at the start
FirstBudget == [id |-> 1, user_id |-> 1, category |-> "Bills", maximum |-> 1]

\* A date is a year, a month (1..12) and a day.
Date(y, m, d) == [year |-> y, month |-> m, day |-> d]

\* the transactions, which no handler changes: expenses of each user, two
\* recurring payments of one payee in different months and an income
FirstLedger ==
    <<[id |-> 1, user_id |-> 1, name |-> "Power Co", category |-> "Bills",
       date |-> Date(2024, 8, 1), amount |-> 0 - 1, recurring |-> TRUE],
      [id |-> 2, user_id |-> 2, name |-> "Cafe", category |-> "Dining",
       date |-> Date(2024, 8, 2), amount |-> 0 - 2, recurring |-> FALSE],
      [id |-> 3, user_id |-> 1, name |-> "Power Co", category |-> "Bills",
       date |-> Date(2024, 9, 1), amount |-> 0 - 2, recurring |-> TRUE],
      [id |-> 4, user_id |-> 1, name |-> "Refund", category |-> "Bills",
       date |-> Date(2024, 8, 3), amount |-> 1, recurring |-> FALSE]>>

InitBudgets ==
    /\ budgets = <<FirstBudget>>
    /\ nextBudget = 2

\* a request that authenticateToken has not received
NoRequest ==
    [pc |-> "idle", header |-> None, at |-> 0, status |-> 0, error |-> "",
     nexted |-> FALSE, user |-> None]

InitAuth ==
    /\ mw = [r \in Slots |-> NoRequest]
    /\ clock = 0

\* a slot without a signup
NoSignup == [pc |-> "idle", email |-> "", userId |-> 0, status |-> 0]

\* The users of the start have signed up completely.
InitSignup ==
    /\ userRows = [u \in Users |-> [id |-> u, email |-> IF u = 1 THEN "a@x" ELSE "b@x"]]
    /\ balanceRows = [u \in Users |-> u]
    /\ nextUser = Cardinality(Users) + 1
    /\ signup = [r \in Slots |-> NoSignup]

\* no request for a report, no page loaded
InitReport ==
    /\ answer = None
    /\ view = None

\* the state after construction, but for the transactions of the store
InitStore ==
    /\ InitBudgets
    /\ InitAuth
    /\ InitSignup
    /\ InitReport
    /\ variant \in Variants
    /\ balance = [u \in Users |-> StartBalance]
    /\ pots = <<FirstPot>>
    /\ nextId = 2
    /\ disk = [balance |-> StartBalance, pots |-> <<FirstPot>>]
    /\ refunded = {}
    /\ req = [r \in Slots |-> Idle]
    /\ nreq = 0
    /\ page = None

Init ==
    /\ InitStore
    /\ transactions = FirstLedger

\* The bodies of POST /api/pots and PUT /api/pots/:id that clients send: the
\* complete body with and without a total, one with each required field
\* missing or falsy, and the partial bodies of an update.
Full == [name |-> Some("Trip"), target |-> Some(1), total |-> None, theme |-> Some("green")]
PotBodies ==
    {NoBody, Full}
    \cup {[Full EXCEPT !.total = Some(t)] : t \in {0 - 1, MaxAmount}}
    \cup {[Full EXCEPT !.name = Some("")], [Full EXCEPT !.target = Some(0)],
          [Full EXCEPT !.target = Some(0 - 1)], [Full EXCEPT !.theme = None]}
    \cup {[NoBody EXCEPT !.total = Some(t)] : t \in {0 - 1, MaxAmount}}
    \cup {[NoBody EXCEPT !.target = Some(1)]}

\* The ids a client can name: a pot id in the SQL variants, an array index
\* (parseInt(req.params.id)) in the in-memory variant.
IdInputs == IF variant = "mem" THEN 0..(MaxPotId - 1) ELSE 1..MaxPotId

FirstPc(op) ==
    IF variant = "mem" THEN "run"
    ELSE CASE op = "add" -> "add_balance"
           [] op = "withdraw" -> "wd_pot"
           [] op = "delete" -> "del_pot"
           [] op = "create" -> "cr_insert"
           [] op = "update" -> "up_update"
           [] op = "data" -> "data_balance"
           [] op = "createBudget" -> "bc_check"
           [] op = "updateBudget" -> "bu_update"
           [] op = "deleteBudget" -> "bd_delete"
           [] op = "getTransaction" -> "tx_read"

\* The amounts of the app's own client, which sends a number, and the amounts
\* any client of the API can send: negative numbers and strings.
AmountStrings == {NumberToString(a) : a \in Amounts}
AmountInputs ==
    AmountStrings \cup {NumberToString(0 - 1), << >>, <<"x">>, <<"1", "x">>, <<"x", "1">>}

\* const addAmount = parseFloat(amount)
ParsedAmount(amount) == IF IsNaN(ParseFloat(amount)) THEN 0 ELSE Val(ParseFloat(amount))

\* A request arrives with one of the given amounts in its body: express routes
\* it to its handler.
Arrive(r, ops, users, amounts) ==
    /\ req[r].pc = "idle"
    /\ nreq < MaxReqs
    /\ \E op \in ops, u \in users, id \in IdInputs, a \in amounts, b \in PotBodies :
        /\ variant = "auth" \/ u = 1
        /\ op \notin {"add", "withdraw"} => a = NumberToString(0)
        /\ op \notin {"create", "update"} => b = NoBody
        /\ op \in {"create", "data"} => id = CHOOSE i \in IdInputs : TRUE
        /\ req' = [req EXCEPT ![r] =
                [Idle EXCEPT !.op = op, !.user = u, !.id = id, !.amount = a,
                             !.arg = ParsedAmount(a),
                             !.body = b, !.pc = FirstPc(op)]]
    /\ nreq' = nreq + 1
    /\ UNCHANGED <<variant, balance, pots, nextId, disk, refunded, extVars>>

Start(r, ops) == Arrive(r, ops, Users, AmountStrings)

\* The response has been sent; the slot is free again.
Finish(r) ==
    /\ req[r].pc = "done" /\ ~req[r].edit
    /\ req' = [req EXCEPT ![r] = Idle]
    /\ UNCHANGED <<variant, balance, pots, nextId, disk, refunded, nreq, extVars>>

\* ---------------------------------------------------------------- addToPot (SQL)
\* parseFloat(amount); isNaN(addAmount) || addAmount <= 0
InvalidAmount(amount) == IsNaN(ParseFloat(amount)) \/ Val(ParseFloat(amount)) <= 0

\* the balance check off by one
InsufficientOffByOne(a, cur) == a > cur + 1

\* addAmount > balance.current
Insufficient(a, cur) == a > cur

\* POST /api/pots/:id/add: validation, then SELECT current FROM balance
AddCheckBalance(r) ==
    /\ Sql /\ At(r, "add", "add_balance")
    /\ LET q == req[r] IN
        req' = [req EXCEPT ![r] =
            IF InvalidAmount(q.amount) THEN Respond(r, "InvalidAmount", 0, 0)
            ELSE IF Insufficient(q.arg, balance[q.user])
                 THEN Respond(r, "InsufficientBalance", 0, 0)
            ELSE [q EXCEPT !.pc = IF variant = "auth" THEN "add_pot" ELSE "add_wbal"]]
    /\ UNCHANGED <<variant, balance, pots, nextId, disk, refunded, nreq, extVars>>

\* SELECT id FROM pots WHERE id = ? AND user_id = ?  (auth variant only)
AddCheckPot(r) ==
    /\ variant = "auth" /\ At(r, "add", "add_pot")
    /\ LET q == req[r] IN
        req' = [req EXCEPT ![r] =
            IF ~HasPot(q.id, q.user) THEN Respond(r, "NotFound", 0, 0)
            ELSE [q EXCEPT !.pc = "add_wbal"]]
    /\ UNCHANGED <<variant, balance, pots, nextId, disk, refunded, nreq, extVars>>

\* UPDATE balance SET current = current - ?
AddWriteBalance(r) ==
    /\ Sql /\ At(r, "add", "add_wbal")
    /\ LET q == req[r] IN
        /\ balance' = [balance EXCEPT ![q.user] = @ - q.arg]
        /\ req' = [req EXCEPT ![r] = [q EXCEPT !.pc = "add_wpot", !.dBal = @ - q.arg]]
    /\ UNCHANGED <<variant, pots, nextId, disk, refunded, nreq, extVars>>

\* UPDATE pots SET total = total + ? WHERE id = ? AND user_id = ?
AddWritePot(r) ==
    /\ Sql /\ At(r, "add", "add_wpot")
    /\ LET q == req[r] IN
        /\ pots' = AddTotal(q.id, q.user, q.arg)
        /\ req' = [req EXCEPT ![r] =
              [q EXCEPT !.pc = "add_rpot",
                        !.dPot = IF HasPot(q.id, q.user) THEN @ + q.arg ELSE @]]
    /\ UNCHANGED <<variant, balance, nextId, disk, refunded, nreq, extVars>>

\* SELECT ... FROM pots WHERE id = ?: the updated pot (null when it is gone)
AddReadPot(r) ==
    /\ Sql /\ At(r, "add", "add_rpot")
    /\ LET q == req[r] IN
        req' = [req EXCEPT ![r] =
            [q EXCEPT !.pc = "add_rbal",
                      !.loc = IF HasPot(q.id, q.user) THEN PotTotal(q.id, q.user) ELSE 0,
                      !.found = HasPot(q.id, q.user)]]
    /\ UNCHANGED <<variant, balance, pots, nextId, disk, refunded, nreq, extVars>>

\* SELECT current FROM balance, then res.json({pot: {...pot, target:
\* parseFloat(pot.target), ...}, balance}): pot.target throws on a null pot,
\* and the catch answers 500.
AddRespond(r) ==
    /\ Sql /\ At(r, "add", "add_rbal")
    /\ LET q == req[r] IN
        req' = [req EXCEPT ![r] =
            IF q.found THEN Respond(r, "ok", q.loc, balance[q.user])
            ELSE Respond(r, "ServerError", 0, 0)]
    /\ UNCHANGED <<variant, balance, pots, nextId, disk, refunded, nreq, extVars>>

\* ---------------------------------------------------------------- withdrawFromPot (SQL)
\* the pot check off by one
OverdrawnOffByOne(a, total) == a > total + 1

\* withdrawAmount > pot.total
Overdrawn(a, total) == a > total

\* POST /api/pots/:id/withdraw: validation, then SELECT total FROM pots
WithdrawCheckPot(r) ==
    /\ Sql /\ At(r, "withdraw", "wd_pot")
    /\ LET q == req[r] IN
        req' = [req EXCEPT ![r] =
            IF InvalidAmount(q.amount) THEN Respond(r, "InvalidAmount", 0, 0)
            ELSE IF ~HasPot(q.id, q.user) THEN Respond(r, "NotFound", 0, 0)
            ELSE IF Overdrawn(q.arg, PotTotal(q.id, q.user))
                 THEN Respond(r, "InsufficientPotFunds", 0, 0)
            ELSE [q EXCEPT !.pc = "wd_wpot"]]
    /\ UNCHANGED <<variant, balance, pots, nextId, disk, refunded, nreq, extVars>>

\* UPDATE pots SET total = total - ? WHERE id = ? AND user_id = ?
WithdrawWritePot(r) ==
    /\ Sql /\ At(r, "withdraw", "wd_wpot")
    /\ LET q == req[r] IN
        /\ pots' = AddTotal(q.id, q.user, 0 - q.arg)
        /\ req' = [req EXCEPT ![r] =
              [q EXCEPT !.pc = "wd_wbal",
                        !.dPot = IF HasPot(q.id, q.user) THEN @ - q.arg ELSE @]]
    /\ UNCHANGED <<variant, balance, nextId, disk, refunded, nreq, extVars>>

\* UPDATE balance SET current = current + ?
WithdrawWriteBalance(r) ==
    /\ Sql /\ At(r, "withdraw", "wd_wbal")
    /\ LET q == req[r] IN
        /\ balance' = [balance EXCEPT ![q.user] = @ + q.arg]
        /\ req' = [req EXCEPT ![r] = [q EXCEPT !.pc = "wd_rpot", !.dBal = @ + q.arg]]
    /\ UNCHANGED <<variant, pots, nextId, disk, refunded, nreq, extVars>>

\* SELECT ... FROM pots WHERE id = ?: the updated pot (null when it is gone)
WithdrawReadPot(r) ==
    /\ Sql /\ At(r, "withdraw", "wd_rpot")
    /\ LET q == req[r] IN
        req' = [req EXCEPT ![r] =
            [q EXCEPT !.pc = "wd_rbal",
                      !.loc = IF HasPot(q.id, q.user) THEN PotTotal(q.id, q.user) ELSE 0,
                      !.found = HasPot(q.id, q.user)]]
    /\ UNCHANGED <<variant, balance, pots, nextId, disk, refunded, nreq, extVars>>

\* SELECT current FROM balance, then res.json(...): updatedPot.target throws
\* on a null pot, and the catch answers 500.
WithdrawRespond(r) ==
    /\ Sql /\ At(r, "withdraw", "wd_rbal")
    /\ LET q == req[r] IN
        req' = [req EXCEPT ![r] =
            IF q.found THEN Respond(r, "ok", q.loc, balance[q.user])
            ELSE Respond(r, "ServerError", 0, 0)]
    /\ UNCHANGED <<variant, balance, pots, nextId, disk, refunded, nreq, extVars>>

\* ---------------------------------------------------------------- deletePot (SQL)
\* DELETE /api/pots/:id: SELECT total FROM pots WHERE id = ? AND user_id = ?
DeleteReadPot(r) ==
    /\ Sql /\ At(r, "delete", "del_pot")
    /\ LET q == req[r] IN
        req' = [req EXCEPT ![r] =
            IF ~HasPot(q.id, q.user) THEN Respond(r, "NotFound", 0, 0)
            ELSE [q EXCEPT !.pc = "del_refund", !.loc = PotTotal(q.id, q.user)]]
    /\ UNCHANGED <<variant, balance, pots, nextId, disk, refunded, nreq, extVars>>

\* UPDATE balance SET current = current + pot.total
DeleteRefund(r) ==
    /\ Sql /\ At(r, "delete", "del_refund")
    /\ LET q == req[r] IN
        /\ balance' = [balance EXCEPT ![q.user] = @ + q.loc]
        /\ refunded' = refunded \cup {q.id}
        /\ req' = [req EXCEPT ![r] = [q EXCEPT !.pc = "del_delete", !.dBal = @ + q.loc]]
    /\ UNCHANGED <<variant, pots, nextId, disk, nreq, extVars>>

\* DELETE FROM pots WHERE id = ? AND user_id = ?
DeleteDelete(r) ==
    /\ Sql /\ At(r, "delete", "del_delete")
    /\ LET q == req[r] IN
        /\ pots' = DeleteRows(q.id, q.user)
        /\ req' = [req EXCEPT ![r] =
              [q EXCEPT !.pc = "del_rbal", !.obj = q.id,
                        !.gone = IF HasPot(q.id, q.user)
                                 THEN Some(PotTotal(q.id, q.user)) ELSE None]]
    /\ UNCHANGED <<variant, balance, nextId, disk, refunded, nreq, extVars>>

\* SELECT current FROM balance, then res.json({returnedAmount: pot.total, newBalance})
DeleteRespond(r) ==
    /\ Sql /\ At(r, "delete", "del_rbal")
    /\ req' = [req EXCEPT ![r] = Respond(r, "ok", req[r].loc, balance[req[r].user])]
    /\ UNCHANGED <<variant, balance, pots, nextId, disk, refunded, nreq, extVars>>

\* ---------------------------------------------------------------- createPot, updatePot (SQL)
\* !name || !target || !theme
FalsyStr(o) == o = None \/ o = Some("")
FalsyNum(o) == o = None \/ o = Some(0)
MissingField(b) == FalsyStr(b.name) \/ FalsyNum(b.target) \/ FalsyStr(b.theme)

\* total || 0
TotalOrZero(o) == IF FalsyNum(o) THEN 0 ELSE Val(o)

\* POST /api/pots: INSERT INTO pots (name, target, total, theme, user_id)
CreateInsert(r) ==
    /\ Sql /\ At(r, "create", "cr_insert")
    /\ LET q == req[r] IN
        IF MissingField(q.body)
        THEN /\ req' = [req EXCEPT ![r] = Respond(r, "ValidationError", 0, 0)]
             /\ UNCHANGED <<pots, nextId>>
        ELSE /\ nextId <= MaxPotId
             /\ pots' = Append(pots, [id |-> nextId, user_id |-> q.user,
                                      name |-> Val(q.body.name),
                                      target |-> Val(q.body.target),
                                      total |-> TotalOrZero(q.body.total)])
             /\ nextId' = nextId + 1
             /\ req' = [req EXCEPT ![r] =
                   [Respond(r, "ok", TotalOrZero(q.body.total), 0) EXCEPT !.id = nextId]]
    /\ UNCHANGED <<variant, balance, disk, refunded, nreq, extVars>>

\* updates.length === 0
NoFields(b) == b.name = None /\ b.target = None /\ b.total = None /\ b.theme = None

\* PUT /api/pots/:id: UPDATE pots SET ... WHERE id = ? AND user_id = ?
UpdateUpdate(r) ==
    /\ Sql /\ At(r, "update", "up_update")
    /\ LET q == req[r] IN
        IF NoFields(q.body)
        THEN /\ req' = [req EXCEPT ![r] = Respond(r, "NoFields", 0, 0)]
             /\ UNCHANGED pots
        ELSE /\ pots' = UpdateFields(q.id, q.user, q.body)
             /\ req' = [req EXCEPT ![r] =
                   IF ~HasPot(q.id, q.user) THEN Respond(r, "NotFound", 0, 0)
                   ELSE [q EXCEPT !.pc = "up_read",
                                  !.dPot = IF q.body.total # None
                                           THEN Val(q.body.total) - PotTotal(q.id, q.user)
                                           ELSE 0]]
    /\ UNCHANGED <<variant, balance, nextId, disk, refunded, nreq, extVars>>

\* SELECT ... FROM pots WHERE id = ?, then res.json({...pot, target:
\* parseFloat(pot.target), ...}): throws on a null pot, the catch answers 500.
UpdateRespond(r) ==
    /\ Sql /\ At(r, "update", "up_read")
    /\ LET q == req[r] IN
        req' = [req EXCEPT ![r] =
            IF HasPot(q.id, q.user) THEN Respond(r, "ok", PotTotal(q.id, q.user), 0)
            ELSE Respond(r, "ServerError", 0, 0)]
    /\ UNCHANGED <<variant, balance, pots, nextId, disk, refunded, nreq, extVars>>

\* ---------------------------------------------------------------- GET /api/data (SQL)
\* SELECT current, income, expenses FROM balance WHERE user_id = ?
DataReadBalance(r) ==
    /\ Sql /\ At(r, "data", "data_balance")
    /\ LET q == req[r] IN
        req' = [req EXCEPT ![r] =
            [q EXCEPT !.pc = "data_pots", !.seenBal = balance[q.user],
                      !.seenRef = refunded, !.seenHad = PotIdsOf(q.user)]]
    /\ UNCHANGED <<variant, balance, pots, nextId, disk, refunded, nreq, extVars>>

\* (the transactions and budgets queries, then) SELECT ... FROM pots WHERE
\* user_id = ?, and res.json(response)
DataReadPots(r) ==
    /\ Sql /\ At(r, "data", "data_pots")
    /\ LET q == req[r] IN
        req' = [req EXCEPT ![r] =
            [Respond(r, "ok", 0, q.seenBal) EXCEPT !.seenPots = PotIdsOf(q.user)]]
    /\ UNCHANGED <<variant, balance, pots, nextId, disk, refunded, nreq, extVars>>

\* ---------------------------------------------------------------- budgets
BudgetOps == {"createBudget", "updateBudget", "deleteBudget"}
Categories == {"Bills", "Dining"}

NoBudgetBody == [category |-> None, maximum |-> None, theme |-> None]
FullBudget(c) == [category |-> Some(c), maximum |-> Some(1), theme |-> Some("green")]

\* The bodies of POST /api/budgets and PUT /api/budgets/:id that clients send:
\* the complete body of each category, bodies with a required field missing
\* or falsy, and the partial bodies of an update.
BudgetBodies ==
    {NoBudgetBody}
    \cup {FullBudget(c) : c \in Categories}
    \cup {[FullBudget("Dining") EXCEPT !.category = Some("")],
          [FullBudget("Bills") EXCEPT !.maximum = None]}
    \cup {[NoBudgetBody EXCEPT !.category = Some(c)] : c \in Categories}

\* The ids a client can name: a budget or transaction id in the SQL variants,
\* an array index in the in-memory variant.
BudgetIdInputs == IF variant = "mem" THEN 0..(MaxBudgetId - 1) ELSE 1..MaxBudgetId

\* A budget or transaction request arrives.
ArriveBudget(r, ops, users) ==
    /\ req[r].pc = "idle"
    /\ nreq < MaxReqs
    /\ \E op \in ops, u \in users, id \in BudgetIdInputs, b \in BudgetBodies :
        /\ variant = "auth" \/ u = 1
        /\ op \notin {"createBudget", "updateBudget"} => b = NoBudgetBody
        /\ op = "createBudget" => id = CHOOSE i \in BudgetIdInputs : TRUE
        /\ req' = [req EXCEPT ![r] =
                [Idle EXCEPT !.op = op, !.user = u, !.id = id, !.body = b,
                             !.pc = FirstPc(op)]]
    /\ nreq' = nreq + 1
    /\ UNCHANGED <<variant, balance, pots, nextId, disk, refunded, page, restVars>>

\* the ownership test left out
OwnedByAnyone(row, u) == TRUE

\* WHERE id = ? AND user_id = ?  (the MySQL variant has no user_id column)
OwnedBy(row, u) == variant = "auth" => row.user_id = u

\* the duplicate check looking at the budgets of the other users
BudgetExistsOtherUser(c, u) ==
    \E i \in DOMAIN budgets : budgets[i].category = c /\ budgets[i].user_id # u

\* SELECT id FROM budgets WHERE category = ? AND user_id = ?
BudgetExists(c, u) ==
    \E i \in DOMAIN budgets : budgets[i].category = c /\ OwnedBy(budgets[i], u)

\* !category || !maximum || !theme
MissingBudgetField(b) ==
    FalsyStr(b.category) \/ FalsyNum(b.maximum) \/ FalsyStr(b.theme)

\* POST /api/budgets: validation, then the duplicate check
CreateBudgetCheck(r) ==
    /\ Sql /\ At(r, "createBudget", "bc_check")
    /\ LET q == req[r] IN
        req' = [req EXCEPT ![r] =
            IF MissingBudgetField(q.body) THEN Respond(r, "ValidationError", 0, 0)
            ELSE IF BudgetExists(Val(q.body.category), q.user)
                 THEN Respond(r, "DuplicateCategory", 0, 0)
            ELSE [q EXCEPT !.pc = "bc_insert"]]
    /\ UNCHANGED <<variant, balance, pots, nextId, disk, refunded, nreq, page,
                   budgetVars, transactions, otherVars>>

\* INSERT INTO budgets (category, maximum, theme, user_id) VALUES (?, ?, ?, ?)
CreateBudgetInsert(r) ==
    /\ Sql /\ At(r, "createBudget", "bc_insert")
    /\ nextBudget <= MaxBudgetId
    /\ LET q == req[r] IN
        /\ budgets' = Append(budgets, [id |-> nextBudget, user_id |-> q.user,
                                       category |-> Val(q.body.category),
                                       maximum |-> Val(q.body.maximum)])
        /\ req' = [req EXCEPT ![r] = [Respond(r, "ok", 0, 0) EXCEPT !.id = nextBudget]]
    /\ nextBudget' = nextBudget + 1
    /\ UNCHANGED <<variant, balance, pots, nextId, disk, refunded, nreq, page,
                   transactions, otherVars>>

\* updates.length === 0
NoBudgetFields(b) == b.category = None /\ b.maximum = None /\ b.theme = None

\* the fields of a budget that the body of a PUT /api/budgets/:id provides
UpdateBudgetRow(row, b) ==
    [row EXCEPT !.category = IF b.category # None THEN Val(b.category) ELSE @,
                !.maximum = IF b.maximum # None THEN Val(b.maximum) ELSE @]

\* PUT /api/budgets/:id: UPDATE budgets SET ... WHERE id = ? AND user_id = ?
UpdateBudgetUpdate(r) ==
    /\ Sql /\ At(r, "updateBudget", "bu_update")
    /\ LET q == req[r]
           hit == {i \in DOMAIN budgets : budgets[i].id = q.id /\ OwnedBy(budgets[i], q.user)}
       IN IF NoBudgetFields(q.body)
          THEN /\ req' = [req EXCEPT ![r] = Respond(r, "NoFields", 0, 0)]
               /\ UNCHANGED budgets
          ELSE /\ budgets' = [i \in DOMAIN budgets |->
                                 IF i \in hit THEN UpdateBudgetRow(budgets[i], q.body)
                                 ELSE budgets[i]]
               /\ req' = [req EXCEPT ![r] =
                     IF hit = {} THEN Respond(r, "NotFound", 0, 0)
                     ELSE [q EXCEPT !.pc = "bu_read"]]
    /\ UNCHANGED <<variant, balance, pots, nextId, disk, refunded, nreq, page,
                   nextBudget, transactions, otherVars>>

\* SELECT ... FROM budgets WHERE id = ? AND user_id = ?, then res.json({...budget,
\* maximum: parseFloat(budget.maximum)}): throws on a null budget, the catch
\* answers 500.
UpdateBudgetRespond(r) ==
    /\ Sql /\ At(r, "updateBudget", "bu_read")
    /\ LET q == req[r] IN
        req' = [req EXCEPT ![r] =
            IF \E i \in DOMAIN budgets : budgets[i].id = q.id /\ OwnedBy(budgets[i], q.user)
            THEN Respond(r, "ok", 0, 0)
            ELSE Respond(r, "ServerError", 0, 0)]
    /\ UNCHANGED <<variant, balance, pots, nextId, disk, refunded, nreq, page,
                   budgetVars, transactions, otherVars>>

\* DELETE /api/budgets/:id: DELETE FROM budgets WHERE id = ? AND user_id = ?
DeleteBudgetDelete(r) ==
    /\ Sql /\ At(r, "deleteBudget", "bd_delete")
    /\ LET q == req[r]
           hit(row) == row.id = q.id /\ OwnedBy(row, q.user)
       IN /\ budgets' = SelectSeq(budgets, LAMBDA row : ~hit(row))
          /\ req' = [req EXCEPT ![r] =
                IF \E i \in DOMAIN budgets : hit(budgets[i])
                THEN Respond(r, "ok", 0, 0) ELSE Respond(r, "NotFound", 0, 0)]
    /\ UNCHANGED <<variant, balance, pots, nextId, disk, refunded, nreq, page,
                   nextBudget, transactions, otherVars>>

\* GET /api/transactions/:id: SELECT ... FROM transactions WHERE id = ? AND
\* user_id = ?; the response carries the transaction's amount.
GetTransaction(r) ==
    /\ Sql /\ At(r, "getTransaction", "tx_read")
    /\ LET q == req[r]
           hit == {i \in DOMAIN transactions :
                      transactions[i].id = q.id /\ OwnedBy(transactions[i], q.user)}
       IN req' = [req EXCEPT ![r] =
              IF hit = {} THEN Respond(r, "NotFound", 0, 0)
              ELSE [Respond(r, "ok", transactions[CHOOSE i \in hit : TRUE].amount, 0)
                       EXCEPT !.obj = q.id]]
    /\ UNCHANGED <<variant, balance, pots, nextId, disk, refunded, nreq, page,
                   budgetVars, transactions, otherVars>>

\* ---------------------------------------------------------------- authenticateToken
\* the state of server.js
serverVars ==
    <<variant, balance, pots, nextId, disk, refunded, req, nreq, page, budgetVars,
      transactions>>

\* A word of an Authorization header: the scheme, an empty word (two spaces in
\* a row), a string that is no JWT, or a JWT with its payload's user, the key
\* it is signed with and its expiry.
Word(kind, sub, key, exp) == [kind |-> kind, sub |-> sub, key |-> key, exp |-> exp]
Bearer == Word("scheme", 0, "", 0)
EmptyWord == Word("empty", 0, "", 0)
Junk == Word("junk", 0, "", 0)
Jwt(u, key, exp) == Word("jwt", u, key, exp)

\* JWT_SECRET, and the key of a token that someone else signed
JwtSecret == "secret"
Keys == {JwtSecret, "forged"}

Tokens == {Jwt(u, k, e) : u \in Users, k \in Keys, e \in 1..MaxClock}

\* req.headers['authorization']: absent, or its words
Headers ==
    {None, <<Bearer>>, <<Junk>>}
    \cup {<<Bearer, t>> : t \in Tokens \cup {Junk}}
    \cup {<<Bearer, EmptyWord, t>> : t \in Tokens}
    \cup {<<t>> : t \in Tokens}

\* authHeader && authHeader.split(' ')[1]
TokenOf(header) == IF header = None \/ Len(header) < 2 THEN None ELSE Some(header[2])

\* the test for a token that never finds one missing
NoTokenNever(token) == FALSE

\* !token: undefined or the empty string
NoToken(token) == token = None \/ Val(token).kind = "empty"

\* verifyToken: jwt.verify(token, JWT_SECRET), null when it throws (a string
\* that is no JWT, a signature made with another key, an expired token)
VerifyToken(token, now) ==
    IF token.kind = "jwt" /\ token.key = JwtSecret /\ now < token.exp
    THEN Some([id |-> token.sub]) ELSE None

\* A request with an Authorization header reaches a protected route.
Receive(r) ==
    /\ mw[r].pc = "idle"
    /\ \E h \in Headers : mw' = [mw EXCEPT ![r] = [NoRequest EXCEPT !.pc = "auth", !.header = h]]
    /\ UNCHANGED <<serverVars, signupVars, reportVars, clock>>

\* authenticateToken(req, res, next)
AuthenticateToken(r) ==
    /\ mw[r].pc = "auth"
    /\ LET token == TokenOf(mw[r].header)
           decoded == IF token = None THEN None ELSE VerifyToken(Val(token), clock)
       IN mw' = [mw EXCEPT ![r] =
              IF NoToken(token)
              THEN [@ EXCEPT !.pc = "done", !.at = clock, !.status = 401,
                             !.error = "Access token required"]
              ELSE IF decoded = None
              THEN [@ EXCEPT !.pc = "done", !.at = clock, !.status = 403,
                             !.error = "Invalid or expired token"]
              ELSE [@ EXCEPT !.pc = "done", !.at = clock, !.user = decoded,
                             !.nexted = TRUE]]
    /\ UNCHANGED <<serverVars, signupVars, reportVars, clock>>

\* The request is over.
Forget(r) ==
    /\ mw[r].pc = "done"
    /\ mw' = [mw EXCEPT ![r] = NoRequest]
    /\ UNCHANGED <<serverVars, signupVars, reportVars, clock>>

\* Time passes.
Tick ==
    /\ clock < MaxClock
    /\ clock' = clock + 1
    /\ UNCHANGED <<serverVars, signupVars, reportVars, mw>>

\* ---------------------------------------------------------------- signup
\* the emails of POST /api/auth/signup
Emails == {"a@x", "c@x", "C@x"}

\* email.toLowerCase()
ToLowerCase(e) == IF e = "C@x" THEN "c@x" ELSE e

\* SELECT id FROM users WHERE email = ?
EmailTaken(e) == \E i \in DOMAIN userRows : userRows[i].email = e

\* POST /api/auth/signup with all fields and a password of 6 characters:
\* auth.createUser is called.
SignupArrive(r) ==
    /\ variant = "auth"
    /\ signup[r].pc = "idle"
    /\ \E e \in Emails :
          signup' = [signup EXCEPT ![r] = [NoSignup EXCEPT !.pc = "su_check", !.email = e]]
    /\ UNCHANGED <<serverVars, authVars, reportVars, userRows, balanceRows, nextUser>>

\* createUser: SELECT id FROM users WHERE email = ?; 'Email already
\* registered' is answered 409.
CreateUserCheck(r) ==
    /\ signup[r].pc = "su_check"
    /\ signup' = [signup EXCEPT ![r] =
          IF EmailTaken(ToLowerCase(signup[r].email))
          THEN [@ EXCEPT !.pc = "done", !.status = 409]
          ELSE [@ EXCEPT !.pc = "su_insert"]]
    /\ UNCHANGED <<serverVars, authVars, reportVars, userRows, balanceRows, nextUser>>

\* createUser: hashPassword, then INSERT INTO users.  Whether the table has
\* a unique index on email is the schema's matter, which the sources do not
\* show: a second row of an email is accepted, or it is refused, createUser
\* throws and the route answers 500.
CreateUserInsert(r) ==
    /\ signup[r].pc = "su_insert"
    /\ \/ /\ EmailTaken(ToLowerCase(signup[r].email))
          /\ signup' = [signup EXCEPT ![r] = [@ EXCEPT !.pc = "done", !.status = 500]]
          /\ UNCHANGED <<userRows, nextUser>>
       \/ /\ nextUser <= MaxUserId
          /\ userRows' = Append(userRows, [id |-> nextUser,
                                     email |-> ToLowerCase(signup[r].email)])
          /\ nextUser' = nextUser + 1
          /\ signup' = [signup EXCEPT ![r] =
                [@ EXCEPT !.pc = "su_balance", !.userId = nextUser]]
    /\ UNCHANGED <<serverVars, authVars, reportVars, balanceRows>>

\* createUser: INSERT INTO balance (user_id, current, income, expenses), and
\* the route answers 201 with the user and a token.
CreateUserBalance(r) ==
    /\ signup[r].pc = "su_balance"
    /\ balanceRows' = Append(balanceRows, signup[r].userId)
    /\ signup' = [signup EXCEPT ![r] = [@ EXCEPT !.pc = "done", !.status = 201]]
    /\ UNCHANGED <<serverVars, authVars, reportVars, userRows, nextUser>>

\* A db.* call of createUser rejects: createUser throws, the route's catch
\* answers 500 and nothing that was inserted is removed.
SignupStoreFails(r) ==
    /\ signup[r].pc \in {"su_check", "su_insert", "su_balance"}
    /\ signup' = [signup EXCEPT ![r] = [@ EXCEPT !.pc = "done", !.status = 500]]
    /\ UNCHANGED <<serverVars, authVars, reportVars, userRows, balanceRows, nextUser>>

\* The response has been sent.
SignupFinish(r) ==
    /\ signup[r].pc = "done"
    /\ signup' = [signup EXCEPT ![r] = NoSignup]
    /\ UNCHANGED <<serverVars, authVars, reportVars, userRows, balanceRows, nextUser>>

\* ---------------------------------------------------------------- budget spending and recurring bills
\* the user of the pages
PageUser == 1

\* new Date(), CURRENT_DATE: the clock counts months from 19 August 2024
CurrentDate == Date(2024, 8 + clock, 19)

\* new Date(b) - new Date(a): dates compare as points in time
DateNum(d) == d.year * 10000 + d.month * 100 + d.day

\* Math.abs, ABS
Abs(x) == IF x < 0 THEN 0 - x ELSE x

\* MONTH(date) = 8 AND YEAR(date) = 2024; getMonth() === 7 && getFullYear() === 2024
InAugust2024(d) == d.month = 8 /\ d.year = 2024

\* MONTH(date) = MONTH(CURRENT_DATE) AND YEAR(date) = YEAR(CURRENT_DATE)
InCurrentMonth(d) == d.month = CurrentDate.month /\ d.year = CurrentDate.year

\* the month a GET /api/budgets sums over
InServerMonth(d) == IF variant = "auth" THEN InCurrentMonth(d) ELSE InAugust2024(d)

\* SUM(ABS(amount)) over the first n rows: NULL when there is no row
RECURSIVE SumAbs(_, _)
SumAbs(rows, n) ==
    IF n = 0 THEN None
    ELSE LET rest == SumAbs(rows, n - 1)
         IN Some((IF rest = None THEN 0 ELSE Val(rest)) + Abs(rows[n].amount))

\* COALESCE(x, d)
Coalesce(x, d) == IF x = None THEN d ELSE Val(x)

\* parseFloat(x) || 0 of a number the store answers
ParseFloatOrZero(x) ==
    LET f == ParseFloat(NumberToString(x))
    IN IF IsNaN(f) \/ Val(f) = 0 THEN 0 ELSE Val(f)

\* SELECT COALESCE(SUM(ABS(amount)), 0) as spent FROM transactions WHERE
\* category = ? AND user_id = ? AND amount < 0 AND <month>, and the spent of
\* the response
SpentQuery(c, u) ==
    LET hit == SelectSeq(transactions,
                   LAMBDA t : /\ t.category = c
                              /\ OwnedBy(t, u)
                              /\ t.amount < 0
                              /\ InServerMonth(t.date))
    IN ParseFloatOrZero(Coalesce(SumAbs(hit, Len(hit)), 0))

\* .filter(August 2024 && t.amount < 0).forEach(t => { if (!spending[t.category])
\* spending[t.category] = 0; spending[t.category] += Math.abs(t.amount) }) over
\* the first n transactions: an object with a key for each category seen
RECURSIVE CalculateSpending(_, _)
CalculateSpending(txs, n) ==
    IF n = 0 THEN [c \in {} |-> 0]
    ELSE LET spending == CalculateSpending(txs, n - 1)
             t == txs[n]
             before == IF t.category \in DOMAIN spending THEN spending[t.category] ELSE 0
         IN IF InAugust2024(t.date) /\ t.amount < 0
            THEN [c \in DOMAIN spending \cup {t.category} |->
                     IF c = t.category THEN before + Abs(t.amount) ELSE spending[c]]
            ELSE spending

\* spending[budget.category] || 0
SpendingOrZero(spending, c) == IF c \in DOMAIN spending THEN spending[c] ELSE 0

\* a sorted by date, newest first, with d added: the sorts are stable
InsertDate(s, d) ==
    LET k == Cardinality({i \in DOMAIN s : DateNum(s[i]) >= DateNum(d)})
    IN SubSeq(s, 1, k) \o <<d>> \o SubSeq(s, k + 1, Len(s))

\* bill.dates.sort((a, b) => new Date(b) - new Date(a))
RECURSIVE SortDates(_)
SortDates(s) ==
    IF s = << >> THEN << >>
    ELSE InsertDate(SortDates(SubSeq(s, 1, Len(s) - 1)), s[Len(s)])

InsertRow(s, t) ==
    LET k == Cardinality({i \in DOMAIN s : DateNum(s[i].date) >= DateNum(t.date)})
    IN SubSeq(s, 1, k) \o <<t>> \o SubSeq(s, k + 1, Len(s))

\* ORDER BY date DESC
RECURSIVE OrderByDateDesc(_)
OrderByDateDesc(s) ==
    IF s = << >> THEN << >>
    ELSE InsertRow(OrderByDateDesc(SubSeq(s, 1, Len(s) - 1)), s[Len(s)])

\* SELECT ... FROM budgets WHERE user_id = ?
UserBudgets(u) == SelectSeq(budgets, LAMBDA b : OwnedBy(b, u))

\* the transactions of GET /api/data: SELECT ... FROM transactions WHERE
\* user_id = ? ORDER BY date DESC, financeData.transactions in the in-memory
\* variant
UserTransactions(u) ==
    IF variant = "mem" THEN transactions
    ELSE OrderByDateDesc(SelectSeq(transactions, LAMBDA t : OwnedBy(t, u)))

\* the days of a month
IsLeapYear(y) == (y % 4 = 0 /\ y % 100 # 0) \/ y % 400 = 0
DaysInMonth(y, m) ==
    IF m = 2 THEN (IF IsLeapYear(y) THEN 29 ELSE 28)
    ELSE IF m \in {4, 6, 9, 11} THEN 30 ELSE 31

\* nextDue.setMonth(nextDue.getMonth() + 1): the month after, with the same
\* day of the month; a day the month does not have runs over into the month
\* that follows it
SetMonthNext(d) ==
    LET m == IF d.month = 12 THEN 1 ELSE d.month + 1
        y == IF d.month = 12 THEN d.year + 1 ELSE d.year
        len == DaysInMonth(y, m)
    IN IF d.day <= len THEN Date(y, m, d.day)
       ELSE Date(IF m = 12 THEN y + 1 ELSE y, IF m = 12 THEN 1 ELSE m + 1, d.day - len)

RECURSIVE DaysBeforeMonth(_, _)
DaysBeforeMonth(y, m) ==
    IF m = 1 THEN 0 ELSE DaysBeforeMonth(y, m - 1) + DaysInMonth(y, m - 1)

RECURSIVE DaysBeforeYear(_)
DaysBeforeYear(y) ==
    IF y <= 2024 THEN 0
    ELSE DaysBeforeYear(y - 1) + (IF IsLeapYear(y - 1) THEN 366 ELSE 365)

\* Date.getTime(), in half days since 2024: a date of the store is a
\* midnight, new Date() is a midnight or a noon
GetTime(d, half) ==
    2 * (DaysBeforeYear(d.year) + DaysBeforeMonth(d.year, d.month) + d.day - 1) + half

\* Math.ceil(a / b)
Ceil(a, b) == 0 - ((0 - a) \div b)

\* referenceDate: new Date() in the auth variant, new Date('2024-08-19')
\* elsewhere
ReferenceDate(half) ==
    IF variant = "auth" THEN [date |-> CurrentDate, half |-> half]
    ELSE [date |-> Date(2024, 8, 19), half |-> 0]

\* Math.ceil((nextDue - referenceDate) / (1000 * 60 * 60 * 24))
DaysUntilDue(nextDue, ref) ==
    Ceil(GetTime(nextDue, 0) - GetTime(ref.date, ref.half), 2)

\* !isPaid && daysUntilDue <= 5: an overdue bill is due soon as well
IsDueSoonOrOverdue(isPaid, days) == ~isPaid /\ days <= 5

\* !isPaid && daysUntilDue >= 0 && daysUntilDue <= 5
IsDueSoon(isPaid, days) == ~isPaid /\ days >= 0 /\ days <= 5

\* the record of a bill in a response
Bill(name, amount, lastDate, isPaid, ref) ==
    LET nextDue == SetMonthNext(lastDate)
        daysUntilDue == DaysUntilDue(nextDue, ref)
    IN [name |-> name, amount |-> amount, lastDate |-> lastDate,
        nextDueDate |-> nextDue, isPaid |-> isPaid,
        daysUntilDue |-> daysUntilDue,
        isDueSoon |-> IsDueSoon(isPaid, daysUntilDue)]

\* the recurringMap after the first n transactions: an entry per name, in
\* the order of insertion, with the amount of the first and the dates of all
\* recurring transactions of the name
RECURSIVE RecurringMap(_, _)
RecurringMap(txs, n) ==
    IF n = 0 THEN << >>
    ELSE LET map == RecurringMap(txs, n - 1)
             t == txs[n]
         IN IF ~t.recurring THEN map
            ELSE IF \E i \in DOMAIN map : map[i].name = t.name
                 THEN [i \in DOMAIN map |->
                          IF map[i].name = t.name
                          THEN [map[i] EXCEPT !.dates = Append(@, t.date)]
                          ELSE map[i]]
                 ELSE Append(map, [name |-> t.name, amount |-> Abs(t.amount),
                                   dates |-> <<t.date>>])

\* Array.from(recurringMap.values()).map(bill => ...): lastDate is
\* sortedDates[0], isPaid is sortedDates.some(d => August 2024), and the
\* reference date is new Date('2024-08-19')
ProcessRecurringBills(txs) ==
    LET map == RecurringMap(txs, Len(txs))
    IN [i \in DOMAIN map |->
           LET sortedDates == SortDates(map[i].dates)
           IN Bill(map[i].name, map[i].amount, sortedDates[1],
                   \E k \in DOMAIN sortedDates : InAugust2024(sortedDates[k]),
                   [date |-> Date(2024, 8, 19), half |-> 0])]

\* SELECT id, avatar, name, category, amount, date as lastDate FROM
\* transactions WHERE recurring = TRUE AND user_id = ? ORDER BY date DESC, and
\* bills.map(bill => ...): isPaid is lastDate's month being the current month
\* (August 2024 in the MySQL variant)
RecurringQuery(u, ref) ==
    LET bills == OrderByDateDesc(SelectSeq(transactions,
                     LAMBDA t : t.recurring /\ OwnedBy(t, u)))
    IN [i \in DOMAIN bills |->
           Bill(bills[i].name, Abs(bills[i].amount), bills[i].date,
                InServerMonth(bills[i].date), ref)]

\* bills.filter(keep).reduce((sum, b) => sum + b.amount, 0) over the first n
RECURSIVE SumAmounts(_, _, _)
SumAmounts(bills, keep(_), n) ==
    IF n = 0 THEN 0
    ELSE SumAmounts(bills, keep, n - 1) + (IF keep(bills[n]) THEN bills[n].amount ELSE 0)

\* the summary of GET /api/recurring-bills and of renderRecurringSummary
Summary(bills) ==
    [paid |-> SumAmounts(bills, LAMBDA b : b.isPaid, Len(bills)),
     upcoming |-> SumAmounts(bills, LAMBDA b : ~b.isPaid, Len(bills)),
     dueSoon |-> SumAmounts(bills, LAMBDA b : b.isDueSoon, Len(bills))]

\* the response of GET /api/recurring-bills, with the reference date it used
BillsReport(u, bills, ref) ==
    [op |-> "bills", pc |-> "done", user |-> u, rows |-> << >>, spent |-> << >>,
     bills |-> bills, reference |-> Some(ref), summary |-> Some(Summary(bills))]

\* a response in the making
Report(op, pc, u, rows, spent, bills) ==
    [op |-> op, pc |-> pc, user |-> u, rows |-> rows, spent |-> spent, bills |-> bills,
     reference |-> None, summary |-> None]

\* GET /api/budgets of the SQL variants: SELECT ... FROM budgets
GetBudgetsList(u) ==
    /\ Sql /\ answer = None
    /\ variant = "auth" \/ u = 1
    /\ answer' = Some(Report("budgets", "spent", u, UserBudgets(u), << >>, << >>))
    /\ UNCHANGED <<serverVars, authVars, signupVars, view>>

\* GET /api/budgets of the SQL variants: the spent query of every budget
\* (no handler changes a transaction, so that their order is immaterial), and
\* the response
GetBudgetsSpent ==
    /\ answer # None /\ Val(answer).pc = "spent"
    /\ LET a == Val(answer)
       IN answer' = Some([a EXCEPT !.pc = "done",
              !.spent = [i \in DOMAIN a.rows |-> SpentQuery(a.rows[i].category, a.user)]])
    /\ UNCHANGED <<serverVars, authVars, signupVars, view>>

\* GET /api/budgets of the in-memory variant
MemGetBudgets ==
    /\ variant = "mem" /\ answer = None
    /\ LET augustSpending == CalculateSpending(transactions, Len(transactions))
       IN answer' = Some(Report("budgets", "done", 1, budgets,
              [i \in DOMAIN budgets |-> SpendingOrZero(augustSpending, budgets[i].category)],
              << >>))
    /\ UNCHANGED <<serverVars, authVars, signupVars, view>>

\* GET /api/recurring-bills
GetRecurringBills(u) ==
    /\ answer = None
    /\ variant = "auth" \/ u = 1
    /\ \E half \in {0, 1} :
        /\ variant = "auth" \/ half = 0
        /\ answer' = Some(BillsReport(u,
              IF Sql THEN RecurringQuery(u, ReferenceDate(half))
              ELSE ProcessRecurringBills(transactions),
              ReferenceDate(half)))
    /\ UNCHANGED <<serverVars, authVars, signupVars, view>>

\* The response has been sent.
AnswerSent ==
    /\ answer # None /\ Val(answer).pc = "done"
    /\ answer' = None
    /\ UNCHANGED <<serverVars, authVars, signupVars, view>>

\* BudgetsPage.loadBudgets and renderBudgets: the budgets and transactions of
\* GET /api/data, and the spent of every budget card
LoadBudgets ==
    /\ LET txs == UserTransactions(PageUser)
           rows == UserBudgets(PageUser)
           augustSpending == CalculateSpending(txs, Len(txs))
       IN view' = Some(Report("budgets", "done", PageUser, rows,
              [i \in DOMAIN rows |-> SpendingOrZero(augustSpending, rows[i].category)],
              << >>))
    /\ UNCHANGED <<serverVars, authVars, signupVars, answer>>

\* App.loadData: the transactions of GET /api/data, and processRecurringBills
LoadData ==
    /\ view' = Some(BillsReport(PageUser,
          ProcessRecurringBills(UserTransactions(PageUser)),
          [date |-> Date(2024, 8, 19), half |-> 0]))
    /\ UNCHANGED <<serverVars, authVars, signupVars, answer>>

\* ---------------------------------------------------------------- transaction query
\* parseInt(x): as parseFloat on the strings at hand, which hold no decimal
\* point; NaN (None) for undefined and for a string without leading digits
ParseInt(x) == IF x = None THEN None ELSE ParseFloat(Val(x))

\* parseInt(x) || d
ParseIntOr(x, d) ==
    IF IsNaN(ParseInt(x)) \/ Val(ParseInt(x)) = 0 THEN d ELSE Val(ParseInt(x))

\* (a, b) => a.amount - b.amount, descending or ascending: the signed amounts
ByAmountSigned(order, a, b) ==
    IF order = "desc" THEN b.amount - a.amount ELSE a.amount - b.amount

\* (a, b) => Math.abs(b.amount) - Math.abs(a.amount), or the reverse
ByAmount(order, a, b) ==
    IF order = "desc" THEN Abs(b.amount) - Abs(a.amount)
    ELSE Abs(a.amount) - Abs(b.amount)

\* the comparator of a sort key: ORDER BY date / ABS(amount), DESC or ASC
Compare(sort, a, b) ==
    CASE sort = "latest" -> DateNum(b.date) - DateNum(a.date)
      [] sort = "oldest" -> DateNum(a.date) - DateNum(b.date)
      [] sort = "highest" -> ByAmount("desc", a, b)
      [] sort = "lowest" -> ByAmount("asc", a, b)

\* Array.prototype.sort with the comparator of the key: a stable sort
RECURSIVE SortBy(_, _)
SortBy(arr, sort) ==
    IF arr = << >> THEN << >>
    ELSE LET sorted == SortBy(SubSeq(arr, 1, Len(arr) - 1), sort)
             x == arr[Len(arr)]
             k == Cardinality({i \in DOMAIN sorted : Compare(sort, sorted[i], x) <= 0})
         IN SubSeq(sorted, 1, k) \o <<x>> \o SubSeq(sorted, k + 1, Len(sorted))

\* ORDER BY of the store over the rows of the indices I: every order that
\* agrees with the key; the statement names no second key, so that rows of
\* equal keys come in an order the store chooses
RECURSIVE Orderings(_, _, _)
Orderings(rows, I, sort) ==
    IF I = {} THEN {<< >>}
    ELSE UNION {{<<rows[i]>> \o o : o \in Orderings(rows, I \ {i}, sort)} :
                   i \in {i \in I : \A j \in I : Compare(sort, rows[i], rows[j]) <= 0}}

\* arr.slice(start, end): a negative index counts from the end
Slice(arr, start, end) ==
    LET Norm(k) == IF k < 0 THEN (IF Len(arr) + k < 0 THEN 0 ELSE Len(arr) + k)
                   ELSE IF k > Len(arr) THEN Len(arr) ELSE k
    IN IF Norm(start) < Norm(end) THEN SubSeq(arr, Norm(start) + 1, Norm(end)) ELSE << >>

\* WHERE user_id = ? AND category = ? / filter(t => t.category === category)
Filtered(u, category) ==
    SelectSeq(transactions,
        LAMBDA t : /\ OwnedBy(t, u)
                   /\ (category # None /\ Val(category) # "All Transactions")
                          => t.category = Val(category))

\* the response of a transaction query (the page of a list): requested is
\* the page asked for, all the sorted list the page is cut from
QueryReport(u, status, requested, limit, sort, all, data, totalPages, currentPage) ==
    [op |-> "transactions", pc |-> "done", user |-> u, status |-> status,
     requested |-> requested, limit |-> limit, sort |-> sort, all |-> all, data |-> data,
     pagination |-> [currentPage |-> currentPage, totalPages |-> totalPages,
                     totalItems |-> Len(all)]]

\* GET /api/transactions?category=&sort=&page=&limit=.  SQL variants: the
\* COUNT(*) and the SELECT ... ORDER BY ... LIMIT ? OFFSET ? (no handler
\* changes a transaction between the two); a negative OFFSET is refused by
\* the store and answered 500.  In-memory variant: filter, sort, slice.
TransactionsQuery(u, pages, limits, sorts, categories) ==
    /\ answer = None
    /\ variant = "auth" \/ u = 1
    /\ \E pageArg \in pages, limitArg \in limits, sort \in sorts, category \in categories :
        LET pageNo == ParseIntOr(pageArg, 1)
            limit == ParseIntOr(limitArg, 10)
            offset == (pageNo - 1) * limit
            rows == Filtered(u, category)
        IN IF Sql
           THEN \E all \in Orderings(rows, DOMAIN rows, sort) :
                  answer' = Some(
                    IF offset < 0
                    THEN QueryReport(u, "ServerError", pageNo, limit, sort, all, << >>, 0, 0)
                    ELSE QueryReport(u, "ok", pageNo, limit, sort, all,
                             SubSeq(all, offset + 1,
                                    IF offset + limit > Len(all) THEN Len(all)
                                    ELSE offset + limit),
                             Ceil(Len(all), limit), pageNo))
           ELSE LET all == SortBy(rows, sort)
                IN answer' = Some(QueryReport(u, "ok", pageNo, limit, sort, all,
                                      Slice(all, offset, offset + limit),
                                      Ceil(Len(all), limit), pageNo))
    /\ UNCHANGED <<serverVars, authVars, signupVars, view>>

\* TransactionsPage with a current page, a category and a sort key, over the
\* transactions of GET /api/data: applyFiltersAndRender and renderTransactions
\* with itemsPerPage = 10
ApplyFiltersAndRender(pages, sorts, categories) ==
    /\ \E pageNo \in pages, sort \in sorts, category \in categories :
        LET rows == UserTransactions(PageUser)
            filtered == SortBy(SelectSeq(rows,
                            LAMBDA t : category # "All Transactions" => t.category = category),
                            sort)
            totalPages == Ceil(Len(filtered), 10)
            currentPage == IF pageNo > totalPages
                           THEN (IF totalPages > 1 THEN totalPages ELSE 1)
                           ELSE pageNo
        IN view' = Some(QueryReport(PageUser, "ok", pageNo, 10, sort, filtered,
                            Slice(filtered, (currentPage - 1) * 10, (currentPage - 1) * 10 + 10),
                            totalPages, currentPage))
    /\ UNCHANGED <<serverVars, authVars, signupVars, answer>>

\* Utils.paginate(arr, page, perPage) over the transactions of GET /api/data
Paginate(pages, perPages) ==
    /\ \E pageNo \in pages, perPage \in perPages :
        LET arr == UserTransactions(PageUser)
            start == (pageNo - 1) * perPage
        IN view' = Some(QueryReport(PageUser, "ok", pageNo, perPage, "none", arr,
                            Slice(arr, start, start + perPage),
                            Ceil(Len(arr), perPage), pageNo))
    /\ UNCHANGED <<serverVars, authVars, signupVars, answer>>

\* ---------------------------------------------------------------- pots page (frontend)
\* SELECT id, name, target, total, theme FROM pots WHERE user_id = ?
UserPots(u) == SelectSeq(pots, LAMBDA p : variant = "auth" => p.user_id = u)

\* PotsPage.loadPots: this.state.pots = data.pots of GET /api/data
LoadPots ==
    /\ page' = Some(UserPots(PageUser))
    /\ UNCHANGED <<variant, balance, pots, nextId, disk, refunded, req, nreq,
                   restVars>>

\* The pot that an entry of state.pots shows: the row it was loaded from, or
\* the pot that the edit or the creation that wrote the entry was made for.
EntityOf(p) == IF "id" \in DOMAIN p THEN p.id ELSE p.entity

\* PotsPage.savePot with an editId, the index of the pot in state.pots: the
\* form's name and target are validated, potData.total is the total the page
\* holds, and API.updatePot(parseInt(editId), potData) sends PUT /api/pots/:id.
SavePot(r, editId, name, target) ==
    /\ page # None /\ editId + 1 \in DOMAIN Val(page)
    /\ name # "" /\ target > 0
    /\ req[r].pc = "idle" /\ nreq < MaxReqs
    /\ req' = [req EXCEPT ![r] =
          [Idle EXCEPT !.op = "update", !.user = PageUser, !.id = editId,
                       !.body = [name |-> Some(name), target |-> Some(target),
                                 theme |-> Some("green"),
                                 total |-> Some(Val(page)[editId + 1].total)],
                       !.edit = TRUE, !.denoted = EntityOf(Val(page)[editId + 1]),
                       !.pc = FirstPc("update")]]
    /\ nreq' = nreq + 1
    /\ UNCHANGED <<variant, balance, pots, nextId, disk, refunded, extVars>>

\* PotsPage.savePot with an empty editId: API.createPot(potData) sends
\* POST /api/pots with total: 0.
SavePotNew(r, name, target) ==
    /\ page # None
    /\ name # "" /\ target > 0
    /\ req[r].pc = "idle" /\ nreq < MaxReqs
    /\ req' = [req EXCEPT ![r] =
          [Idle EXCEPT !.op = "create", !.user = PageUser,
                       !.id = CHOOSE i \in IdInputs : TRUE,
                       !.body = [name |-> Some(name), target |-> Some(target),
                                 theme |-> Some("green"), total |-> Some(0)],
                       !.edit = TRUE, !.pc = FirstPc("create")]]
    /\ nreq' = nreq + 1
    /\ UNCHANGED <<variant, balance, pots, nextId, disk, refunded, extVars>>

\* the pot that POST /api/pots has created, from the id of its response:
\* the row id in the SQL variants, the index in the in-memory variant
Created(q) ==
    IF variant # "mem" THEN q.id
    ELSE IF q.id + 1 \in DOMAIN pots THEN pots[q.id + 1].id ELSE 0

\* savePot after the await: this.state.pots[parseInt(editId)] = potData or
\* this.state.pots.push(potData), the response is not read; or the catch
\* when the request failed
SavePotDone(r) ==
    /\ req[r].pc = "done" /\ req[r].edit
    /\ LET q == req[r]
           potData == [name |-> Val(q.body.name), target |-> Val(q.body.target),
                       total |-> Val(q.body.total),
                       entity |-> IF q.op = "create" THEN Created(q) ELSE q.denoted]
       IN page' = IF q.status = "ok" /\ q.op = "create"
                  THEN Some(Append(Val(page), potData))
                  ELSE IF q.status = "ok" /\ q.id + 1 \in DOMAIN Val(page)
                  THEN Some([Val(page) EXCEPT ![q.id + 1] = potData])
                  ELSE page
    /\ req' = [req EXCEPT ![r] = Idle]
    /\ UNCHANGED <<variant, balance, pots, nextId, disk, refunded, nreq, restVars>>

\* ---------------------------------------------------------------- store failure
\* A db.* call rejects (connection lost, timeout): the handler's catch
\* answers 500 and nothing the handler has written is undone.
StoreFails(r) ==
    /\ Sql /\ req[r].pc \notin {"idle", "done"}
    /\ req' = [req EXCEPT ![r] = Respond(r, "ServerError", 0, 0)]
    /\ UNCHANGED <<variant, balance, pots, nextId, disk, refunded, nreq, extVars>>

\* ---------------------------------------------------------------- in-memory variant
\* index < 0 || index >= financeData.pots.length
OutOfRange(index) == index < 0 \/ index >= Len(pots)

\* saveData(): fs.writeFileSync of financeData; a failed write is logged and
\* saveData returns false, which no handler reads.
SaveData(ok, b, ps) == disk' = IF ok THEN [balance |-> b, pots |-> ps] ELSE disk

\* POST /api/pots/:id/add
MemAddToPot(r, saveOk) ==
    /\ variant = "mem" /\ At(r, "add", "run")
    /\ LET q == req[r]
           i == q.id + 1
       IN IF OutOfRange(q.id)
          THEN /\ req' = [req EXCEPT ![r] = Respond(r, "NotFound", 0, 0)]
               /\ UNCHANGED <<balance, pots, disk>>
          ELSE IF InvalidAmount(q.amount)
          THEN /\ req' = [req EXCEPT ![r] = Respond(r, "InvalidAmount", 0, 0)]
               /\ UNCHANGED <<balance, pots, disk>>
          ELSE IF Insufficient(q.arg, balance[1])
          THEN /\ req' = [req EXCEPT ![r] = Respond(r, "InsufficientBalance", 0, 0)]
               /\ UNCHANGED <<balance, pots, disk>>
          ELSE /\ pots' = [pots EXCEPT ![i].total = @ + q.arg]
               /\ balance' = [balance EXCEPT ![1] = @ - q.arg]
               /\ SaveData(saveOk, balance'[1], pots')
               /\ req' = [req EXCEPT ![r] =
                     [Respond(r, "ok", pots'[i].total, balance'[1])
                         EXCEPT !.dBal = 0 - q.arg, !.dPot = q.arg, !.saved = saveOk]]
    /\ UNCHANGED <<variant, nextId, refunded, nreq, extVars>>

\* POST /api/pots/:id/withdraw
MemWithdrawFromPot(r, saveOk) ==
    /\ variant = "mem" /\ At(r, "withdraw", "run")
    /\ LET q == req[r]
           i == q.id + 1
       IN IF OutOfRange(q.id)
          THEN /\ req' = [req EXCEPT ![r] = Respond(r, "NotFound", 0, 0)]
               /\ UNCHANGED <<balance, pots, disk>>
          ELSE IF InvalidAmount(q.amount)
          THEN /\ req' = [req EXCEPT ![r] = Respond(r, "InvalidAmount", 0, 0)]
               /\ UNCHANGED <<balance, pots, disk>>
          ELSE IF Overdrawn(q.arg, pots[i].total)
          THEN /\ req' = [req EXCEPT ![r] = Respond(r, "InsufficientPotFunds", 0, 0)]
               /\ UNCHANGED <<balance, pots, disk>>
          ELSE /\ pots' = [pots EXCEPT ![i].total = @ - q.arg]
               /\ balance' = [balance EXCEPT ![1] = @ + q.arg]
               /\ SaveData(saveOk, balance'[1], pots')
               /\ req' = [req EXCEPT ![r] =
                     [Respond(r, "ok", pots'[i].total, balance'[1])
                         EXCEPT !.dBal = q.arg, !.dPot = 0 - q.arg, !.saved = saveOk]]
    /\ UNCHANGED <<variant, nextId, refunded, nreq, extVars>>

\* financeData.pots.splice(index, 1)
Splice(ps, i) == [j \in 1..(Len(ps) - 1) |-> IF j < i THEN ps[j] ELSE ps[j + 1]]

\* DELETE /api/pots/:id
MemDeletePot(r, saveOk) ==
    /\ variant = "mem" /\ At(r, "delete", "run")
    /\ LET q == req[r]
           i == q.id + 1
       IN IF OutOfRange(q.id)
          THEN /\ req' = [req EXCEPT ![r] = Respond(r, "NotFound", 0, 0)]
               /\ UNCHANGED <<balance, pots, disk, refunded>>
          ELSE /\ balance' = [balance EXCEPT ![1] = @ + pots[i].total]
               /\ pots' = Splice(pots, i)
               /\ refunded' = refunded \cup {pots[i].id}
               /\ SaveData(saveOk, balance'[1], pots')
               /\ req' = [req EXCEPT ![r] =
                     [Respond(r, "ok", pots[i].total, balance'[1])
                         EXCEPT !.dBal = pots[i].total, !.gone = Some(pots[i].total),
                                !.loc = pots[i].total, !.obj = pots[i].id,
                                !.saved = saveOk]]
    /\ UNCHANGED <<variant, nextId, nreq, extVars>>

\* parseFloat(total) || 0
ParsedTotalOrZero(o) == IF o = None THEN 0 ELSE Val(o)

\* POST /api/pots
MemCreatePot(r, saveOk) ==
    /\ variant = "mem" /\ At(r, "create", "run")
    /\ LET q == req[r] IN
        IF MissingField(q.body)
        THEN /\ req' = [req EXCEPT ![r] = Respond(r, "ValidationError", 0, 0)]
             /\ UNCHANGED <<pots, nextId, disk>>
        ELSE /\ nextId <= MaxPotId
             /\ pots' = Append(pots, [id |-> nextId, user_id |-> 1,
                                      name |-> Val(q.body.name),
                                      target |-> Val(q.body.target),
                                      total |-> ParsedTotalOrZero(q.body.total)])
             /\ nextId' = nextId + 1
             /\ SaveData(saveOk, balance[1], pots')
             /\ req' = [req EXCEPT ![r] =
                   [Respond(r, "ok", ParsedTotalOrZero(q.body.total), 0)
                       EXCEPT !.id = Len(pots') - 1, !.saved = saveOk]]
    /\ UNCHANGED <<variant, balance, refunded, nreq, extVars>>

\* PUT /api/pots/:id
MemUpdatePot(r, saveOk) ==
    /\ variant = "mem" /\ At(r, "update", "run")
    /\ LET q == req[r]
           i == q.id + 1
       IN IF OutOfRange(q.id)
          THEN /\ req' = [req EXCEPT ![r] = Respond(r, "NotFound", 0, 0)]
               /\ UNCHANGED <<pots, disk>>
          ELSE /\ pots' = [pots EXCEPT ![i] = UpdateRow(pots[i], q.body)]
               /\ SaveData(saveOk, balance[1], pots')
               /\ req' = [req EXCEPT ![r] =
                     [Respond(r, "ok", pots'[i].total, 0)
                         EXCEPT !.saved = saveOk,
                                !.dPot = pots'[i].total - pots[i].total]]
    /\ UNCHANGED <<variant, balance, nextId, refunded, nreq, extVars>>

\* GET /api/data: res.json(financeData)
MemGetData(r) ==
    /\ variant = "mem" /\ At(r, "data", "run")
    /\ req' = [req EXCEPT ![r] =
          [Respond(r, "ok", 0, balance[1])
              EXCEPT !.seenBal = balance[1], !.seenRef = refunded,
                     !.seenHad = PotIdsOf(1), !.seenPots = PotIdsOf(1)]]
    /\ UNCHANGED <<variant, balance, pots, nextId, disk, refunded, nreq, extVars>>

\* ---------------------------------------------------------------- in-memory budgets
\* POST /api/budgets
MemCreateBudget(r) ==
    /\ variant = "mem" /\ At(r, "createBudget", "run")
    /\ LET q == req[r] IN
        IF MissingBudgetField(q.body)
        THEN /\ req' = [req EXCEPT ![r] = Respond(r, "ValidationError", 0, 0)]
             /\ UNCHANGED <<budgets, nextBudget, disk>>
        ELSE IF BudgetExists(Val(q.body.category), 1)
        THEN /\ req' = [req EXCEPT ![r] = Respond(r, "DuplicateCategory", 0, 0)]
             /\ UNCHANGED <<budgets, nextBudget, disk>>
        ELSE /\ nextBudget <= MaxBudgetId
             /\ budgets' = Append(budgets, [id |-> nextBudget, user_id |-> 1,
                                            category |-> Val(q.body.category),
                                            maximum |-> Val(q.body.maximum)])
             /\ nextBudget' = nextBudget + 1
             /\ SaveData(TRUE, balance[1], pots)
             /\ req' = [req EXCEPT ![r] =
                   [Respond(r, "ok", 0, 0) EXCEPT !.id = Len(budgets') - 1]]
    /\ UNCHANGED <<variant, balance, pots, nextId, refunded, nreq, page, transactions, otherVars>>

\* PUT /api/budgets/:id
MemUpdateBudget(r) ==
    /\ variant = "mem" /\ At(r, "updateBudget", "run")
    /\ LET q == req[r]
           i == q.id + 1
       IN IF q.id < 0 \/ q.id >= Len(budgets)
          THEN /\ req' = [req EXCEPT ![r] = Respond(r, "NotFound", 0, 0)]
               /\ UNCHANGED <<budgets, disk>>
          ELSE /\ budgets' = [budgets EXCEPT ![i] = UpdateBudgetRow(budgets[i], q.body)]
               /\ SaveData(TRUE, balance[1], pots)
               /\ req' = [req EXCEPT ![r] = Respond(r, "ok", 0, 0)]
    /\ UNCHANGED <<variant, balance, pots, nextId, refunded, nreq, page, nextBudget,
                   transactions, otherVars>>

\* DELETE /api/budgets/:id
MemDeleteBudget(r) ==
    /\ variant = "mem" /\ At(r, "deleteBudget", "run")
    /\ LET q == req[r] IN
        IF q.id < 0 \/ q.id >= Len(budgets)
        THEN /\ req' = [req EXCEPT ![r] = Respond(r, "NotFound", 0, 0)]
             /\ UNCHANGED <<budgets, disk>>
        ELSE /\ budgets' = Splice(budgets, q.id + 1)
             /\ SaveData(TRUE, balance[1], pots)
             /\ req' = [req EXCEPT ![r] = Respond(r, "ok", 0, 0)]
    /\ UNCHANGED <<variant, balance, pots, nextId, refunded, nreq, page, nextBudget,
                   transactions, otherVars>>

\* ---------------------------------------------------------------- specifications
\* Clients issue any pot request and GET /api/data; the store does not fail.
Next ==
    \E r \in Slots :
        \/ Start(r, AllOps)
        \/ AddCheckBalance(r)
        \/ AddCheckPot(r)
        \/ AddWriteBalance(r)
        \/ AddWritePot(r)
        \/ AddReadPot(r)
        \/ AddRespond(r)
        \/ WithdrawCheckPot(r)
        \/ WithdrawWritePot(r)
        \/ WithdrawWriteBalance(r)
        \/ WithdrawReadPot(r)
        \/ WithdrawRespond(r)
        \/ DeleteReadPot(r)
        \/ DeleteRefund(r)
        \/ DeleteDelete(r)
        \/ DeleteRespond(r)
        \/ CreateInsert(r)
        \/ UpdateUpdate(r)
        \/ UpdateRespond(r)
        \/ DataReadBalance(r)
        \/ DataReadPots(r)
        \/ MemAddToPot(r, TRUE)
        \/ MemWithdrawFromPot(r, TRUE)
        \/ MemDeletePot(r, TRUE)
        \/ MemCreatePot(r, TRUE)
        \/ MemUpdatePot(r, TRUE)
        \/ MemGetData(r)
        \/ Finish(r)

Spec == Init /\ [][Next]_vars

\* Clients issue addToPot requests only.
NextAdd ==
    \E r \in Slots :
        \/ Start(r, {"add"})
        \/ AddCheckBalance(r)
        \/ AddCheckPot(r)
        \/ AddWriteBalance(r)
        \/ AddWritePot(r)
        \/ AddReadPot(r)
        \/ AddRespond(r)
        \/ MemAddToPot(r, TRUE)
        \/ Finish(r)

SpecAdd == Init /\ [][NextAdd]_vars

\* Clients issue addToPot, withdrawFromPot and deletePot requests only.
NextTransfer ==
    \E r \in Slots :
        \/ Start(r, TransferOps)
        \/ AddCheckBalance(r)
        \/ AddCheckPot(r)
        \/ AddWriteBalance(r)
        \/ AddWritePot(r)
        \/ AddReadPot(r)
        \/ AddRespond(r)
        \/ WithdrawCheckPot(r)
        \/ WithdrawWritePot(r)
        \/ WithdrawWriteBalance(r)
        \/ WithdrawReadPot(r)
        \/ WithdrawRespond(r)
        \/ DeleteReadPot(r)
        \/ DeleteRefund(r)
        \/ DeleteDelete(r)
        \/ DeleteRespond(r)
        \/ MemAddToPot(r, TRUE)
        \/ MemWithdrawFromPot(r, TRUE)
        \/ MemDeletePot(r, TRUE)
        \/ Finish(r)

SpecTransfer == Init /\ [][NextTransfer]_vars

\* The transfers, with a store that can fail at any step.
NextFault ==
    \E r \in Slots :
        \/ Start(r, TransferOps)
        \/ AddCheckBalance(r)
        \/ AddCheckPot(r)
        \/ AddWriteBalance(r)
        \/ AddWritePot(r)
        \/ AddReadPot(r)
        \/ AddRespond(r)
        \/ WithdrawCheckPot(r)
        \/ WithdrawWritePot(r)
        \/ WithdrawWriteBalance(r)
        \/ WithdrawReadPot(r)
        \/ WithdrawRespond(r)
        \/ DeleteReadPot(r)
        \/ DeleteRefund(r)
        \/ DeleteDelete(r)
        \/ DeleteRespond(r)
        \/ StoreFails(r)
        \/ \E ok \in BOOLEAN : MemAddToPot(r, ok)
        \/ \E ok \in BOOLEAN : MemWithdrawFromPot(r, ok)
        \/ \E ok \in BOOLEAN : MemDeletePot(r, ok)
        \/ Finish(r)

SpecFault == Init /\ [][NextFault]_vars

\* Clients issue deletePot and GET /api/data requests only.
NextRead ==
    \E r \in Slots :
        \/ Start(r, {"delete", "data"})
        \/ DeleteReadPot(r)
        \/ DeleteRefund(r)
        \/ DeleteDelete(r)
        \/ DeleteRespond(r)
        \/ DataReadBalance(r)
        \/ DataReadPots(r)
        \/ MemDeletePot(r, TRUE)
        \/ MemGetData(r)
        \/ Finish(r)

SpecRead == Init /\ [][NextRead]_vars

\* Clients of the API issue addToPot and withdrawFromPot requests with any
\* amount, numbers and strings.
NextAmount ==
    \E r \in Slots :
        \/ Arrive(r, {"add", "withdraw"}, Users, AmountInputs)
        \/ AddCheckBalance(r)
        \/ AddCheckPot(r)
        \/ AddWriteBalance(r)
        \/ AddWritePot(r)
        \/ AddReadPot(r)
        \/ AddRespond(r)
        \/ WithdrawCheckPot(r)
        \/ WithdrawWritePot(r)
        \/ WithdrawWriteBalance(r)
        \/ WithdrawReadPot(r)
        \/ WithdrawRespond(r)
        \/ MemAddToPot(r, TRUE)
        \/ MemWithdrawFromPot(r, TRUE)
        \/ Finish(r)

SpecAmount == Init /\ [][NextAmount]_vars

\* The pots page is loaded and edits a pot's name and target, while
\* createPot, addToPot and withdrawFromPot requests of other clients run.
NextEdit ==
    \/ \E r \in Slots :
        \/ Start(r, {"create", "add", "withdraw"})
        \/ AddCheckBalance(r)
        \/ AddCheckPot(r)
        \/ AddWriteBalance(r)
        \/ AddWritePot(r)
        \/ AddReadPot(r)
        \/ AddRespond(r)
        \/ WithdrawCheckPot(r)
        \/ WithdrawWritePot(r)
        \/ WithdrawWriteBalance(r)
        \/ WithdrawReadPot(r)
        \/ WithdrawRespond(r)
        \/ CreateInsert(r)
        \/ UpdateUpdate(r)
        \/ UpdateRespond(r)
        \/ MemAddToPot(r, TRUE)
        \/ MemWithdrawFromPot(r, TRUE)
        \/ MemCreatePot(r, TRUE)
        \/ MemUpdatePot(r, TRUE)
        \/ Finish(r)
        \/ SavePotDone(r)
        \/ \E i \in 0..(MaxPotId - 1), n \in {"", "Trip"}, t \in {0, 1} :
              SavePot(r, i, n, t)
    \/ LoadPots

SpecEdit == Init /\ [][NextEdit]_vars

\* Clients issue createBudget, updateBudget and deleteBudget requests.
NextBudget ==
    \E r \in Slots :
        \/ ArriveBudget(r, BudgetOps, Users)
        \/ CreateBudgetCheck(r)
        \/ CreateBudgetInsert(r)
        \/ UpdateBudgetUpdate(r)
        \/ UpdateBudgetRespond(r)
        \/ DeleteBudgetDelete(r)
        \/ MemCreateBudget(r)
        \/ MemUpdateBudget(r)
        \/ MemDeleteBudget(r)
        \/ Finish(r)

SpecBudget == Init /\ [][NextBudget]_vars

\* Clients issue createBudget requests only.
NextCreateBudget ==
    \E r \in Slots :
        \/ ArriveBudget(r, {"createBudget"}, Users)
        \/ CreateBudgetCheck(r)
        \/ CreateBudgetInsert(r)
        \/ MemCreateBudget(r)
        \/ Finish(r)

SpecCreateBudget == Init /\ [][NextCreateBudget]_vars

\* One user of the MySQL + Auth variant, the one who owns nothing at the start,
\* issues pot, budget and transaction requests with any id.
Intruder == 2

NextCross ==
    \E r \in Slots :
        \/ Arrive(r, AllOps, {Intruder}, AmountStrings)
        \/ ArriveBudget(r, BudgetOps \cup {"getTransaction"}, {Intruder})
        \/ AddCheckBalance(r)
        \/ AddCheckPot(r)
        \/ AddWriteBalance(r)
        \/ AddWritePot(r)
        \/ AddReadPot(r)
        \/ AddRespond(r)
        \/ WithdrawCheckPot(r)
        \/ WithdrawWritePot(r)
        \/ WithdrawWriteBalance(r)
        \/ WithdrawReadPot(r)
        \/ WithdrawRespond(r)
        \/ DeleteReadPot(r)
        \/ DeleteRefund(r)
        \/ DeleteDelete(r)
        \/ DeleteRespond(r)
        \/ CreateInsert(r)
        \/ UpdateUpdate(r)
        \/ UpdateRespond(r)
        \/ DataReadBalance(r)
        \/ DataReadPots(r)
        \/ CreateBudgetCheck(r)
        \/ CreateBudgetInsert(r)
        \/ UpdateBudgetUpdate(r)
        \/ UpdateBudgetRespond(r)
        \/ DeleteBudgetDelete(r)
        \/ GetTransaction(r)
        \/ Finish(r)

SpecCross == Init /\ [][NextCross]_vars

\* Requests with any Authorization header reach the protected routes.
NextAuth ==
    \/ \E r \in Slots :
        \/ Receive(r)
        \/ AuthenticateToken(r)
        \/ Forget(r)
    \/ Tick

SpecAuth == Init /\ [][NextAuth]_vars

\* Clients sign up, with a store that can fail at any step.
NextSignup ==
    \E r \in Slots :
        \/ SignupArrive(r)
        \/ CreateUserCheck(r)
        \/ CreateUserInsert(r)
        \/ CreateUserBalance(r)
        \/ SignupStoreFails(r)
        \/ SignupFinish(r)

SpecSignup == Init /\ [][NextSignup]_vars

\* Clients ask for the budgets and the recurring bills and open the pages
\* while budgets are created and time passes.
NextReport ==
    \/ \E u \in Users : GetBudgetsList(u)
    \/ GetBudgetsSpent
    \/ MemGetBudgets
    \/ \E u \in Users : GetRecurringBills(u)
    \/ AnswerSent
    \/ LoadBudgets
    \/ LoadData
    \/ Tick
    \/ \E r \in Slots :
        \/ ArriveBudget(r, {"createBudget"}, Users)
        \/ CreateBudgetCheck(r)
        \/ CreateBudgetInsert(r)
        \/ MemCreateBudget(r)
        \/ Finish(r)

SpecReport == Init /\ [][NextReport]_vars

\* the dates, payees and amounts of recurring transactions
BillDates == {Date(2024, 1, 31), Date(2024, 7, 15), Date(2024, 7, 20), Date(2024, 8, 15)}
BillRows ==
    [id : {0}, user_id : {PageUser}, name : {"Power Co", "Gym"}, category : {"Bills"},
     date : BillDates, amount : {0 - 1, 0 - 2}, recurring : {TRUE}]

\* The store holds up to two recurring transactions of one user.
BillLedgers ==
    {<< >>} \cup {<<[a EXCEPT !.id = 1]>> : a \in BillRows}
    \cup {<<[a EXCEPT !.id = 1], [b EXCEPT !.id = 2]>> : a \in BillRows, b \in BillRows}

InitBills ==
    /\ InitStore
    /\ transactions \in BillLedgers

\* Clients ask for the recurring bills and open the overview page as time
\* passes.
NextBills ==
    \/ \E u \in Users : GetRecurringBills(u)
    \/ AnswerSent
    \/ LoadData
    \/ Tick

SpecBills == InitBills /\ [][NextBills]_vars

\* a transaction list of n rows, of two categories, newest last
ItemRow(i) ==
    [id |-> i, user_id |-> PageUser, name |-> "Shop",
     category |-> IF i % 2 = 1 THEN "Bills" ELSE "Dining",
     date |-> Date(2024, 8, i), amount |-> 0 - i, recurring |-> FALSE]
ItemLedgers == {[i \in 1..n |-> ItemRow(i)] : n \in 0..MaxItems}

InitItems ==
    /\ InitStore
    /\ transactions \in ItemLedgers

\* the page and limit parameters of a query: absent, numbers, and no number
PageArgs == {None} \cup {Some(NumberToString(n)) : n \in {0 - 1, 0, 1, 2, 3, 5}} \cup {Some(<<"x">>)}
LimitArgs == {None, Some(<<"2">>)}
CategoryArgs == {None, Some("All Transactions"), Some("Bills"), Some("Travel")}

\* Clients query pages of the transaction list, and the page does.
NextQuery ==
    \/ \E u \in Users : TransactionsQuery(u, PageArgs, LimitArgs, {"latest", "oldest"}, CategoryArgs)
    \/ ApplyFiltersAndRender({1, 2}, {"latest"}, {"All Transactions", "Travel"})
    \/ Paginate({1, 5}, {2})
    \/ AnswerSent

SpecQuery == InitItems /\ [][NextQuery]_vars

\* the rows of a ledger to sort: amounts of either sign, equal and different
SortRows ==
    [id : {0}, user_id : {PageUser}, name : {"Shop"}, category : {"Bills"},
     date : {Date(2024, 8, 1)}, amount : {0 - 2, 0 - 1, 1, 2}, recurring : {FALSE}]
SortLedgers ==
    UNION {{[i \in 1..n |-> [f[i] EXCEPT !.id = i, !.date = Date(2024, 8, i)]] :
               f \in [1..n -> SortRows]} : n \in 0..MaxRows}

InitSort ==
    /\ InitStore
    /\ transactions \in SortLedgers

\* Clients and the page sort the transaction list by amount.
NextSort ==
    \/ \E u \in Users : TransactionsQuery(u, {None}, {None}, {"highest", "lowest"}, {None})
    \/ ApplyFiltersAndRender({1}, {"highest", "lowest"}, {"All Transactions"})
    \/ AnswerSent

SpecSort == InitSort /\ [][NextSort]_vars

\* ---------------------------------------------------------------- listed ids (in-memory variant)
\* Math.round((pot.total / pot.target) * 100), halves rounded up
Percentage(pot) ==
    IF pot.target > 0 THEN (200 * pot.total + pot.target) \div (2 * pot.target) ELSE 0

\* GET /api/pots of the in-memory variant: entry i of the response has
\* id: i - 1, the index; its computed column is the percentage
MemGetPots ==
    /\ variant = "mem" /\ answer = None
    /\ answer' = Some(Report("pots", "done", 1, pots,
              [i \in DOMAIN pots |-> Percentage(pots[i])], << >>))
    /\ UNCHANGED <<serverVars, authVars, signupVars, view>>

\* The client that holds a list sends a request for entry k of the list, with
\* the id the list gave it: k - 1.
IssueListed(r, ops) ==
    /\ answer # None /\ Val(answer).op \in {"pots", "budgets"}
    /\ req[r].pc = "idle" /\ nreq < MaxReqs
    /\ \E op \in ops, k \in DOMAIN Val(answer).rows, a \in AmountStrings :
        /\ (op = "deleteBudget") = (Val(answer).op = "budgets")
        /\ op \notin {"add", "withdraw"} => a = NumberToString(0)
        /\ req' = [req EXCEPT ![r] =
              [Idle EXCEPT !.op = op, !.id = k - 1, !.amount = a,
                           !.arg = ParsedAmount(a),
                           !.body = IF op = "update" THEN Full ELSE NoBody,
                           !.denoted = Val(answer).rows[k].id,
                           !.pc = FirstPc(op)]]
    /\ nreq' = nreq + 1
    /\ UNCHANGED <<variant, balance, pots, nextId, disk, refunded, extVars>>

\* the pots and budgets of the in-memory store at the start of a session
ListedPots == [i \in 1..3 |-> [FirstPot EXCEPT !.id = i]]
ListedBudgets ==
    [i \in 1..3 |-> [FirstBudget EXCEPT !.id = i,
                                         !.category = <<"Bills", "Dining", "Travel">>[i]]]

InitIds ==
    /\ InitAuth
    /\ InitSignup
    /\ InitReport
    /\ variant = "mem"
    /\ balance = [u \in Users |-> StartBalance]
    /\ pots = ListedPots
    /\ nextId = 4
    /\ disk = [balance |-> StartBalance, pots |-> ListedPots]
    /\ refunded = {}
    /\ req = [r \in Slots |-> Idle]
    /\ nreq = 0
    /\ page = None
    /\ budgets = ListedBudgets
    /\ nextBudget = 4
    /\ transactions = FirstLedger

\* A client lists the pots or the budgets and sends requests with the ids of
\* the list while other clients delete pots and budgets.
NextIds ==
    \/ MemGetPots
    \/ MemGetBudgets
    \/ AnswerSent
    \/ \E r \in Slots :
        \/ IssueListed(r, {"delete", "update", "add", "withdraw", "deleteBudget"})
        \/ Start(r, {"delete"})
        \/ ArriveBudget(r, {"deleteBudget"}, {1})
        \/ MemDeletePot(r, TRUE)
        \/ MemUpdatePot(r, TRUE)
        \/ MemAddToPot(r, TRUE)
        \/ MemWithdrawFromPot(r, TRUE)
        \/ MemDeleteBudget(r)
        \/ Finish(r)

SpecIds == InitIds /\ [][NextIds]_vars

\* The pots page is loaded, creates pots and edits the pots it shows; no
\* other client changes the pots.
NextPage ==
    \/ LoadPots
    \/ \E r \in Slots :
        \/ \E i \in 0..(MaxPotId - 1), n \in {"", "Trip"}, t \in {0, 1} :
              SavePot(r, i, n, t)
        \/ \E n \in {"", "Trip", "Car"}, t \in {0, 1} : SavePotNew(r, n, t)
        \/ CreateInsert(r)
        \/ UpdateUpdate(r)
        \/ UpdateRespond(r)
        \/ MemCreatePot(r, TRUE)
        \/ MemUpdatePot(r, TRUE)
        \/ SavePotDone(r)

SpecPage == Init /\ [][NextPage]_vars

\* ---------------------------------------------------------------- claims
PotIds == {pots[i].id : i \in DOMAIN pots}
Done(r, op) == req[r].op = op /\ req[r].pc = "done"

\* C1: while clients issue nothing but addToPot requests, in every
\* interleaving of their store steps, no user's balance.current is negative.
C1_BalanceNeverNegative == \A u \in Users : balance[u] >= 0

\* C2: a successful addToPot(amount) has taken exactly amount from
\* balance.current and added exactly amount to its pot, and the balance it
\* reports is not negative; a successful withdrawFromPot(amount) has done the
\* reverse.
C2_TransferExact ==
    \A r \in Slots :
        /\ Done(r, "add") /\ req[r].status = "ok" =>
              /\ req[r].dBal = 0 - req[r].arg
              /\ req[r].dPot = req[r].arg
              /\ req[r].retBal >= 0
        /\ Done(r, "withdraw") /\ req[r].status = "ok" =>
              /\ req[r].dBal = req[r].arg
              /\ req[r].dPot = 0 - req[r].arg

\* C3: what GET /api/data returns while deletePot requests run is consistent:
\* no pot whose refund the balance it read included is still in the pots it
\* lists, and every pot that was there when it read the balance and is not
\* listed has its refund in that balance.
C3_ReaderConsistent ==
    \A r \in Slots :
        Done(r, "data") =>
            /\ req[r].seenRef \cap req[r].seenPots = {}
            /\ (req[r].seenHad \ req[r].seenPots) \subseteq req[r].seenRef

\* C4: the amount a deletePot has credited to balance.current is the total
\* the pot has at the moment its row is removed, whatever addToPot and
\* withdrawFromPot requests run beside it.
C4_RefundIsTotalAtRemoval ==
    \A r \in Slots :
        req[r].op = "delete" /\ req[r].gone # None => Val(req[r].gone) = req[r].dBal

\* The handler of request r takes its first step, the one that validates
\* the request and reads the store.
FirstStep(r, op) ==
    /\ req[r].op = op
    /\ req[r].pc \in {"add_balance", "wd_pot", "run"}
    /\ req'[r] # req[r]

Rejected(r, st) ==
    /\ req'[r].pc = "done"
    /\ req'[r].status = st
    /\ balance' = balance
    /\ pots' = pots

\* C5 as stated: an addToPot whose amount is greater than balance.current
\* is answered InsufficientBalance and changes neither the balance nor a pot.
C5_AsStated ==
    [][\A r \in Slots :
          FirstStep(r, "add") /\ req[r].arg > 0 /\ req[r].arg > balance[req[r].user]
              => Rejected(r, "InsufficientBalance")]_vars

\* C5, amended: an addToPot whose amount is greater than balance.current
\* changes neither the balance nor a pot and is answered InsufficientBalance,
\* except in the in-memory variant for an index that is out of range, which is
\* answered NotFound.
C5_InsufficientBalance ==
    [][\A r \in Slots :
          FirstStep(r, "add") /\ req[r].arg > 0 /\ req[r].arg > balance[req[r].user]
              => IF variant = "mem" /\ req[r].id >= Len(pots)
                 THEN Rejected(r, "NotFound")
                 ELSE Rejected(r, "InsufficientBalance")]_vars

C5_Witness ==
    \E r \in Slots :
        /\ Done(r, "add") /\ req[r].status = "InsufficientBalance"
        /\ req[r].arg > balance[req[r].user]

\* C6: an addToPot on a pot id that does not exist, or is another user's, and
\* whose amount passes the amount and balance checks, is answered NotFound
\* and has written nothing (the pots are those of the start: clients issue
\* only addToPot).
C6_MissingPotNotFound ==
    \A r \in Slots :
        /\ Done(r, "add")
        /\ IF variant = "mem" THEN req[r].id >= Len(pots)
                              ELSE ~HasPot(req[r].id, req[r].user)
        /\ req[r].status \notin {"InvalidAmount", "InsufficientBalance"}
        => req[r].status = "NotFound" /\ req[r].dBal = 0 /\ req[r].dPot = 0

\* C7: with a store that can fail at any step, a transfer that does not
\* report success has written nothing, and one that reports success has
\* persisted what it changed.
C7_FailureChangesNothing ==
    \A r \in Slots :
        req[r].pc = "done" =>
            /\ req[r].status # "ok" =>
                  req[r].dBal = 0 /\ req[r].dPot = 0 /\ req[r].gone = None
            /\ req[r].status = "ok" => req[r].saved

\* C8: a successful deletePot has credited the deleted pot's total to the
\* balance, returns that total as the refunded amount, and the pot is no
\* longer listed; a deletePot of an absent pot is answered NotFound and has
\* written nothing.
C8_DeleteRefundsTotal ==
    \A r \in Slots :
        Done(r, "delete") =>
            /\ req[r].status \in {"ok", "NotFound"}
            /\ req[r].status = "ok" =>
                  /\ req[r].gone = Some(req[r].ret)
                  /\ req[r].dBal = req[r].ret
                  /\ req[r].obj \notin PotIds
            /\ req[r].status = "NotFound" =>
                  req[r].dBal = 0 /\ req[r].gone = None

\* C9: no pot ever has a negative total.
C9_TotalsNonNegative == \A i \in DOMAIN pots : pots[i].total >= 0

\* C10: a withdrawFromPot of an amount greater than the total of its pot is
\* answered InsufficientPotFunds and changes neither the pot nor the balance.
C10_OverdrawRejected ==
    [][\A r \in Slots :
          /\ FirstStep(r, "withdraw") /\ req[r].arg > 0
          /\ \E i \in DOMAIN pots :
                /\ IF variant = "mem" THEN i = req[r].id + 1
                   ELSE pots[i].id = req[r].id
                        /\ (variant = "auth" => pots[i].user_id = req[r].user)
                /\ req[r].arg > pots[i].total
          => Rejected(r, "InsufficientPotFunds")]_vars

C10_Witness ==
    \E r \in Slots : Done(r, "withdraw") /\ req[r].status = "InsufficientPotFunds"

\* A string that is a number: an optional minus sign and then digits, and
\* nothing else.
IsNumeric(s) ==
    LET d == IF s # << >> /\ Head(s) = "-" THEN Tail(s) ELSE s
    IN d # << >> /\ \A i \in DOMAIN d : IsDigit(d[i])

\* C11: only an amount that is numeric and greater than 0 reaches the
\* transfer: an addToPot or withdrawFromPot whose amount is not a number, or
\* is not positive, writes nothing and is not answered with success.
C11_OnlyPositiveNumbersTransfer ==
    \A r \in Slots :
        /\ req[r].op \in {"add", "withdraw"}
        /\ req[r].dBal # 0 \/ req[r].dPot # 0 \/ req[r].status = "ok"
        => IsNumeric(req[r].amount) /\ DigitsValue(req[r].amount) > 0

\* C12: an edit of a pot's name and target by the pots page leaves the
\* pot's total as it is, whatever addToPot and withdrawFromPot requests ran
\* between the page's load and the edit (in the in-memory variant, where the
\* index the page sends is the id of the pot it shows).
C12_EditKeepsTotal ==
    \A r \in Slots :
        variant = "mem" /\ req[r].op = "update" /\ req[r].edit => req[r].dPot = 0

\* C13: createPot and updatePot accept a pot only with a name that is not
\* empty and a target greater than 0: no pot in the store has an empty name
\* or a target that is not positive, and no request that carries one is
\* answered with success.
C13_OnlyValidPotsAccepted ==
    /\ \A i \in DOMAIN pots : pots[i].name # "" /\ pots[i].target > 0
    /\ \A r \in Slots :
          /\ req[r].op \in {"create", "update"}
          /\ \/ req[r].body.name = Some("")
             \/ req[r].body.target # None /\ Val(req[r].body.target) <= 0
          => req[r].status # "ok"

\* C14: each user has at most one budget per category.
C14_OneBudgetPerCategory ==
    \A i, j \in DOMAIN budgets :
        /\ budgets[i].category = budgets[j].category
        /\ budgets[i].user_id = budgets[j].user_id
        => i = j

OnOthersId(r) ==
    /\ req[r].user = Intruder
    /\ \/ req[r].op \in {"add", "withdraw", "update", "delete"} /\ req[r].id = FirstPot.id
       \/ req[r].op \in {"updateBudget", "deleteBudget"} /\ req[r].id = FirstBudget.id
       \/ req[r].op = "getTransaction" /\ req[r].id = FirstLedger[1].id

\* The requests of the intruder leave the owner's balance, pots and budgets as
\* they were and return none of the owner's data.
OwnerUntouched ==
    /\ balance[FirstPot.user_id] = StartBalance
    /\ SelectSeq(pots, LAMBDA p : p.user_id = FirstPot.user_id) = <<FirstPot>>
    /\ SelectSeq(budgets, LAMBDA b : b.user_id = FirstBudget.user_id) = <<FirstBudget>>
    /\ \A r \in Slots :
          /\ FirstPot.id \notin req[r].seenPots
          /\ OnOthersId(r) => req[r].status # "ok" /\ req[r].ret = 0 /\ req[r].retBal = 0

\* C16 as stated: every request on an id of another user is answered
\* NotFound, and the other user's data is neither changed nor returned.
C16_AsStated ==
    /\ OwnerUntouched
    /\ \A r \in Slots : OnOthersId(r) /\ req[r].pc = "done" => req[r].status = "NotFound"

\* C16, amended: a request on an id of another user is never answered with
\* success or Forbidden and neither changes nor returns the other user's
\* data; it is answered NotFound, unless the handler rejects the request's
\* own content first: InvalidAmount for an amount that is not positive,
\* InsufficientBalance for an addToPot above the caller's balance, and "No
\* fields to update" for an update whose body is empty.
C16_OtherUsersIdsNotFound ==
    /\ OwnerUntouched
    /\ \A r \in Slots :
          OnOthersId(r) /\ req[r].pc = "done" =>
              \/ req[r].status = "NotFound"
              \/ /\ req[r].status = "InvalidAmount"
                 /\ req[r].op \in {"add", "withdraw"} /\ req[r].arg <= 0
              \/ /\ req[r].status = "InsufficientBalance"
                 /\ req[r].op = "add" /\ req[r].arg > 0
              \/ /\ req[r].status = "NoFields"
                 /\ \/ req[r].op = "update" /\ req[r].body = NoBody
                    \/ req[r].op = "updateBudget" /\ req[r].body = NoBudgetBody

C16_Witness ==
    \E r, q \in Slots :
        /\ OnOthersId(r) /\ Done(r, "deleteBudget") /\ req[r].status = "NotFound"
        /\ OnOthersId(q) /\ Done(q, "delete") /\ req[q].status = "NotFound"

\* C17: authenticateToken answers 401 'Access token required' and does not
\* call next when the header carries no token; it answers 403 and does not
\* call next when the token is no JWT, is signed with another key or has
\* expired; it calls next, with req.user the user of the token, when the
\* token is a JWT signed with the secret that has not expired.
C17_OnlyValidTokensPass ==
    \A r \in Slots :
        mw[r].pc = "done" =>
            LET h == mw[r].header
                absent == h = None \/ Len(h) < 2 \/ h[2].kind = "empty"
                valid == /\ ~absent /\ h[2].kind = "jwt"
                         /\ h[2].key = JwtSecret /\ mw[r].at < h[2].exp
            IN /\ absent => /\ mw[r].status = 401 /\ ~mw[r].nexted
                            /\ mw[r].error = "Access token required"
               /\ ~absent /\ ~valid => mw[r].status = 403 /\ ~mw[r].nexted
               /\ valid => /\ mw[r].nexted /\ mw[r].status = 0
                           /\ mw[r].user = Some([id |-> h[2].sub])
               /\ ~mw[r].nexted => mw[r].user = None

C17_Witness ==
    \E r, q \in Slots :
        /\ mw[r].pc = "done" /\ mw[r].nexted
        /\ mw[q].pc = "done" /\ mw[q].status = 403 /\ mw[q].header[2].key = JwtSecret

\* C18: once the signups have been answered, every user of the users table
\* owns exactly one row of the balance table.
C18_OneBalancePerUser ==
    (\A r \in Slots : signup[r].pc \in {"idle", "done"}) =>
        \A i \in DOMAIN userRows :
            Cardinality({j \in DOMAIN balanceRows : balanceRows[j] = userRows[i].id}) = 1

\* the months a reporting period can be
Periods == {Date(2024, m, 1) : m \in 7..12}

\* the sum of abs(amount) over the transactions of user u in category c with
\* amount < 0 and date in the month p
RECURSIVE SumOf(_)
SumOf(S) == IF S = {} THEN 0
            ELSE LET i == CHOOSE i \in S : TRUE
                 IN Abs(transactions[i].amount) + SumOf(S \ {i})
PeriodSum(c, u, p) ==
    SumOf({i \in DOMAIN transactions :
              /\ transactions[i].category = c
              /\ variant = "auth" => transactions[i].user_id = u
              /\ transactions[i].amount < 0
              /\ transactions[i].date.month = p.month
              /\ transactions[i].date.year = p.year})

\* every spent of a report is the sum of the month p
SpentOf(report, p) ==
    (report # None /\ Val(report).op = "budgets" /\ Val(report).pc = "done") =>
        \A i \in DOMAIN Val(report).rows :
            Val(report).spent[i] = PeriodSum(Val(report).rows[i].category, Val(report).user, p)

\* C19: there is a reporting period, one calendar month, such that the spent
\* of every budget, in the response of GET /api/budgets and on the budgets
\* page, is the sum of abs(amount) over the user's transactions of the
\* budget's category with amount < 0 and a date in that month (0 without such
\* a transaction).
C19_SpentIsPeriodSum ==
    \E p \in Periods : SpentOf(answer, p) /\ SpentOf(view, p)

\* the recurring transactions of user u with the payee name n
RecurringOf(u, n) ==
    {i \in DOMAIN transactions :
        /\ transactions[i].recurring
        /\ transactions[i].name = n
        /\ variant = "auth" => transactions[i].user_id = u}

\* the report has exactly one record of every payee of the user's recurring
\* transactions, with the latest date of the payee, and no other record
OnePerPayee(report) ==
    (report # None /\ Val(report).op = "bills") =>
        LET bills == Val(report).bills
            u == Val(report).user
        IN /\ \A i \in DOMAIN transactions :
                  RecurringOf(u, transactions[i].name) # {} =>
                      Cardinality({k \in DOMAIN bills :
                                      bills[k].name = transactions[i].name}) = 1
           /\ \A k \in DOMAIN bills :
                  /\ RecurringOf(u, bills[k].name) # {}
                  /\ \A i \in RecurringOf(u, bills[k].name) :
                         DateNum(transactions[i].date) <= DateNum(bills[k].lastDate)
                  /\ \E i \in RecurringOf(u, bills[k].name) :
                         transactions[i].date = bills[k].lastDate

\* C20: the recurring bills, of GET /api/recurring-bills and of the overview
\* page, hold exactly one record per distinct payee name of the user's
\* recurring transactions, and its lastDate is the payee's latest date.
C20_OneRecordPerPayee == OnePerPayee(answer) /\ OnePerPayee(view)

\* the reports of recurring bills at hand
BillReports == {r \in {answer, view} : r # None /\ Val(r).op = "bills"}

\* the month after, with the same day of the month or the last day of a
\* shorter month
ClampedNextMonth(d) ==
    LET m == IF d.month = 12 THEN 1 ELSE d.month + 1
        y == IF d.month = 12 THEN d.year + 1 ELSE d.year
        last == CHOOSE n \in 28..31 :
                    /\ n \in {28, 29} <=> m = 2
                    /\ n = 29 <=> (m = 2 /\ y % 4 = 0 /\ (y % 100 # 0 \/ y % 400 = 0))
                    /\ n = 30 <=> m \in {4, 6, 9, 11}
    IN [year |-> y, month |-> m, day |-> IF d.day < last THEN d.day ELSE last]

\* C21: the nextDueDate of every recurring bill is its lastDate advanced by
\* one calendar month, with the same day of the month, clamped to the last
\* day of a shorter month (2024-01-31 gives 2024-02-29).
C21_NextDueDateClamped ==
    \A r \in BillReports : \A k \in DOMAIN Val(r).bills :
        Val(r).bills[k].nextDueDate = ClampedNextMonth(Val(r).bills[k].lastDate)

\* C22: there is one reference period, a month of a year, such that in every
\* report a bill's isPaid is true if and only if a recurring transaction of
\* the user with the bill's payee name has its date in that period.
C22_PaidIffGroupInPeriod ==
    \E p \in Periods :
        \A r \in BillReports : \A k \in DOMAIN Val(r).bills :
            Val(r).bills[k].isPaid <=>
                \E i \in RecurringOf(Val(r).user, Val(r).bills[k].name) :
                    /\ transactions[i].date.month = p.month
                    /\ transactions[i].date.year = p.year

\* the least number of whole days that covers the time from the reference
\* date to the midnight of the due date
WholeDays(due, ref) ==
    LET t == GetTime(due, 0) - GetTime(ref.date, ref.half)
    IN CHOOSE n \in (0 - 400)..100 : 2 * n >= t /\ 2 * (n - 1) < t

RECURSIVE SumBills(_, _)
SumBills(bills, K) ==
    IF K = {} THEN 0
    ELSE LET k == CHOOSE k \in K : TRUE
         IN bills[k].amount + SumBills(bills, K \ {k})

\* the first record of every payee name of the bills
Groups(bills) ==
    {k \in DOMAIN bills : \A j \in DOMAIN bills : bills[j].name = bills[k].name => k <= j}

\* C24: in every report of recurring bills, with each payee group counted
\* once, paid is the sum of the amounts of the paid groups, upcoming that of
\* the unpaid groups and dueSoon that of the groups due soon; paid + upcoming
\* is the total of all groups and dueSoon <= upcoming (all 0 without bills).
C24_SummaryCountsGroupsOnce ==
    \A r \in BillReports :
        LET bills == Val(r).bills
            summary == Val(Val(r).summary)
            G == Groups(bills)
        IN /\ summary.paid = SumBills(bills, {k \in G : bills[k].isPaid})
           /\ summary.upcoming = SumBills(bills, {k \in G : ~bills[k].isPaid})
           /\ summary.dueSoon = SumBills(bills, {k \in G : bills[k].isDueSoon})
           /\ summary.paid + summary.upcoming = SumBills(bills, G)
           /\ summary.dueSoon <= summary.upcoming

\* the answered pages of transaction lists at hand
QueryReports == {r \in {answer, view} : r # None /\ Val(r).op = "transactions"}

\* the number of pages of n items, at least one
PagesOf(n, size) ==
    CHOOSE k \in 1..(n + 1) : (k * size >= n) /\ (k = 1 \/ (k - 1) * size < n)

\* C25: every answered transaction query reports totalPages =
\* ceil(totalItems / pageSize) and at least 1, also for an empty list.
C25_TotalPagesAtLeastOne ==
    \A r \in QueryReports :
        Val(r).status = "ok" =>
            Val(r).pagination.totalPages = PagesOf(Val(r).pagination.totalItems, Val(r).limit)

\* C26: a transaction query for any requested page is answered, with the
\* requested page clamped into 1..totalPages as currentPage and that page's
\* items as the slice.
C26_PageClamped ==
    \A r \in QueryReports :
        LET q == Val(r)
            pagesOf == PagesOf(Len(q.all), q.limit)
            clamped == IF q.requested < 1 THEN 1
                       ELSE IF q.requested > pagesOf THEN pagesOf ELSE q.requested
        IN /\ q.status = "ok"
           /\ q.pagination.currentPage = clamped
           /\ q.data = [i \in 1..(IF clamped * q.limit > Len(q.all)
                                   THEN Len(q.all) - (clamped - 1) * q.limit
                                   ELSE q.limit) |->
                            q.all[(clamped - 1) * q.limit + i]]

\* the list is the rows of orig by descending (highest) or ascending (lowest)
\* abs(amount), rows of equal abs(amount) in the order they have in orig
SortedByAbs(q, orig) ==
    LET Magnitude(t) == IF t.amount < 0 THEN 0 - t.amount ELSE t.amount
        Pos(t) == CHOOSE i \in DOMAIN orig : orig[i].id = t.id
    IN /\ Len(q.all) = Len(orig)
       /\ \A i \in DOMAIN orig : \E j \in DOMAIN q.all : q.all[j] = orig[i]
       /\ \A i, j \in DOMAIN q.all :
              i < j =>
                 /\ q.sort = "highest" => Magnitude(q.all[i]) >= Magnitude(q.all[j])
                 /\ q.sort = "lowest" => Magnitude(q.all[i]) <= Magnitude(q.all[j])
                 /\ Magnitude(q.all[i]) = Magnitude(q.all[j]) => Pos(q.all[i]) < Pos(q.all[j])

\* the rows the server sorts for a user, in the order of the store
StoreOrder(u) == SelectSeq(transactions, LAMBDA t : variant = "auth" => t.user_id = u)

RECURSIVE SumTotals(_)
SumTotals(I) ==
    IF I = {} THEN 0
    ELSE LET i == CHOOSE i \in I : TRUE IN pots[i].total + SumTotals(I \ {i})

\* balance.current plus the totals of the pots of user u
Holdings(u) ==
    balance[u] + SumTotals({i \in DOMAIN pots : variant = "auth" => pots[i].user_id = u})

\* C28: whenever no request is in flight, balance.current plus the sum of
\* the pot totals of the user who owns the pots is what it was at the start,
\* after any interleaving of addToPot, withdrawFromPot and deletePot requests.
C28_HoldingsConserved ==
    (\A r \in Slots : req[r].pc \in {"idle", "done"}) =>
        Holdings(FirstPot.user_id) = StartBalance + StartTotal

\* the rows of the entity e in a table
RowsOf(table, e) == {table[i] : i \in {j \in DOMAIN table : table[j].id = e}}

\* the entities whose row a step changes or removes
Touched(before, after) ==
    {e \in {before[i].id : i \in DOMAIN before} : RowsOf(before, e) # RowsOf(after, e)}

\* C29: in the in-memory variant a request sent with an id taken from the
\* list of GET /api/pots or GET /api/budgets, for a pot or budget that still
\* exists, changes or removes no pot and no budget other than the one the id
\* denoted in that list, whatever other entries were deleted since.
C29_ListedIdDenotesSameEntity ==
    [][\A r \in Slots :
          LET d == req[r].denoted
              table == IF req[r].op = "deleteBudget" THEN budgets ELSE pots
          IN (d # 0 /\ RowsOf(table, d) # {}
                 /\ req[r].pc = "run" /\ req'[r].pc = "done") =>
                 /\ Touched(pots, pots') \subseteq {p \in {d} : req[r].op # "deleteBudget"}
                 /\ Touched(budgets, budgets') \subseteq {b \in {d} : req[r].op = "deleteBudget"}]_vars

\* the id under which the server holds the pot e: its row id in the SQL
\* variants, its index in the in-memory variant
ServerId(e) ==
    IF variant # "mem" THEN e
    ELSE (CHOOSE i \in DOMAIN pots : pots[i].id = e) - 1

\* C30: every edit that the pots page sends for a pot that it shows and
\* that the server holds, one created in the session included, carries the
\* server's id of that pot.
C30_EditSentForShownPot ==
    [][\A r \in Slots :
          (req[r].pc = "idle" /\ req'[r].edit /\ req'[r].op = "update"
              /\ req'[r].denoted \in PotIds) =>
              req'[r].id = ServerId(req'[r].denoted)]_vars

====
